---------------------------- MODULE Spec2Model ----------------------------
(***************************************************************************)
(* A model of the polymorphic List and Set encodings of the key-value      *)
(* engine: src/src/t_set.c (intset / listpack / hash table sets) and       *)
(* src/src/t_list.c (listpack / quicklist lists).                          *)
(*                                                                         *)
(* Byte strings are sequences of one-character strings, so that parsing    *)
(* and formatting of integers are computed and not assumed.  The backends  *)
(* (listpack, intset, dict, quicklist) are not part of the sources; they   *)
(* are modelled from their documented contracts.                           *)
(***************************************************************************)
EXTENDS Integers, Sequences, FiniteSets, TLC

(***************************************************************************)
(* Bounds of the model and the configuration the model runs under.         *)
(***************************************************************************)

\* Width in bits of "long long" in the model (64 in the program).
LLBits == 8

\* Width in bits of the long long that holds an expire time in the model (64
\* in the program).
TimeBits == 12

\* The largest value of server.dirty the model counts to.
MaxDirty == 2

\* server.set_max_intset_entries
set_max_intset_entries == 2

\* server.set_max_listpack_entries
set_max_listpack_entries == 3

\* server.set_max_listpack_value
set_max_listpack_value == 1

\* LISTPACK_MAX_SAFETY_SIZE of lpSafeToAdd (1<<30 in the program)
lp_max_safety_size == 12

\* The largest size hint setTypeCreate is called with.
MaxSizeHint == 4

\* The byte limit of a list node for fill -1 (4096 in the program).
node_size_limit == 14

\* packed_threshold of the quicklist: an element of at least this many bytes
\* is stored in a plain node (1 GB in the program).
packed_threshold == 3

\* The largest entry-count value of server.list_max_listpack_size.
MaxFill == 3

\* The longest list the model builds.
MaxListLen == 4

\* The addresses of the heap that holds the stores of two set objects.
MaxAddr == 3

\* The calls made on a set and its duplicate after the duplication.
MaxDupOps == 2

LLONG_MAX == 2^(LLBits - 1) - 1

LLONG_MIN == -(2^(LLBits - 1))

ULLONG_MAX == 2^LLBits - 1

(***************************************************************************)
(* Byte strings and the decimal conversions.                               *)
(***************************************************************************)

DigitChars == <<"0", "1", "2", "3", "4", "5", "6", "7", "8", "9">>

IsDigit(c) == \E i \in 1..10 : DigitChars[i] = c

DigitVal(c) == (CHOOSE i \in 1..10 : DigitChars[i] = c) - 1

RECURSIVE Digits(_)
\* The decimal digits of a non-negative number, most significant first.
Digits(n) ==
    IF n < 10 THEN <<DigitChars[n + 1]>>
    ELSE Digits(n \div 10) \o <<DigitChars[(n % 10) + 1]>>

\* ll2string / sdsfromlonglong: the canonical decimal text of a long long.
ll2string(v) == IF v < 0 THEN <<"-">> \o Digits(-v) ELSE Digits(v)

RECURSIVE Accumulate(_, _, _)
\* The digit loop of string2ll: v = v*10 + digit with both overflow checks;
\* -1 when a character is no digit or the unsigned value overflows.
Accumulate(s, i, v) ==
    IF i > Len(s) THEN v
    ELSE IF ~IsDigit(s[i]) THEN -1
    ELSE IF v > ULLONG_MAX \div 10 THEN -1
    ELSE IF v * 10 > ULLONG_MAX - DigitVal(s[i]) THEN -1
    ELSE Accumulate(s, i + 1, v * 10 + DigitVal(s[i]))

\* string2ll: [ok, value].  Only the canonical text of a number in range
\* parses: no leading zero, no "-0", no empty string, no sign alone.
string2ll(s) ==
    LET negative == Len(s) > 0 /\ s[1] = "-"
        body     == IF negative THEN Tail(s) ELSE s
        fail     == [ok |-> FALSE, value |-> 0]
    IN  IF Len(s) = 0 THEN fail
        ELSE IF s = <<"0">> THEN [ok |-> TRUE, value |-> 0]
        ELSE IF Len(body) = 0 THEN fail
        ELSE IF ~(IsDigit(body[1]) /\ DigitVal(body[1]) >= 1) THEN fail
        ELSE LET v == Accumulate(body, 2, DigitVal(body[1]))
             IN  IF v < 0 THEN fail
                 ELSE IF negative
                      THEN IF v > LLONG_MAX + 1 THEN fail
                           ELSE [ok |-> TRUE, value |-> -v]
                      ELSE IF v > LLONG_MAX THEN fail
                           ELSE [ok |-> TRUE, value |-> v]

\* isSdsRepresentableAsLongLong(value, NULL) == C_OK
isSdsRepresentableAsLongLong(s) == string2ll(s).ok

RECURSIVE digits10(_)
digits10(v) == IF v < 10 THEN 1 ELSE 1 + digits10(v \div 10)

\* sdigits10: the length of the decimal text, the sign included.
sdigits10(v) == IF v < 0 THEN digits10(-v) + 1 ELSE digits10(v)

Max(a, b) == IF a > b THEN a ELSE b

RECURSIVE SeqSum(_)
SeqSum(s) == IF Len(s) = 0 THEN 0 ELSE Head(s) + SeqSum(Tail(s))

\* The sequence s without its i-th element.
RemoveAt(s, i) == SubSeq(s, 1, i - 1) \o SubSeq(s, i + 1, Len(s))

\* The sequence s with e inserted so that it becomes the i-th element.
InsertAt(s, i, e) == SubSeq(s, 1, i - 1) \o <<e>> \o SubSeq(s, i, Len(s))

\* The elements of a sequence.
Range(s) == {s[i] : i \in 1..Len(s)}

\* All orderings of a finite set, as sequences without repetition.
Orderings(S) ==
    {f \in [1..Cardinality(S) -> S] : \A i, j \in 1..Cardinality(S) : f[i] = f[j] => i = j}

(***************************************************************************)
(* listpack: a sequence of entries, each an integer or a string.  An       *)
(* appended string that is the canonical text of an integer is stored as   *)
(* that integer.                                                           *)
(***************************************************************************)

LP_HDR_SIZE == 6

lpNew == <<>>

lpIntEntry(v) == [int |-> v]

lpStrEntry(s) == [str |-> s]

lpIsInt(e) == "int" \in DOMAIN e

\* The encoding chosen for an inserted string (lpEncodeGetType).
lpEncode(s) == IF string2ll(s).ok THEN lpIntEntry(string2ll(s).value) ELSE lpStrEntry(s)

\* lpGet: the entry as bytes, an integer rendered in decimal.
lpGet(e) == IF lpIsInt(e) THEN ll2string(e.int) ELSE e.str

lpAppend(lp, s) == Append(lp, lpEncode(s))

lpPrepend(lp, s) == <<lpEncode(s)>> \o lp

lpAppendInteger(lp, v) == Append(lp, lpIntEntry(v))

lpPrependInteger(lp, v) == <<lpIntEntry(v)>> \o lp

lpLength(lp) == Len(lp)

\* Encoded size of one entry: encoding byte(s), payload, back length.
lpEntrySize(e) ==
    IF lpIsInt(e)
    THEN IF e.int >= 0 /\ e.int <= 127 THEN 2
         ELSE IF e.int >= -4096 /\ e.int <= 4095 THEN 3
         ELSE 4
    ELSE Len(e.str) + 2

lpBytes(lp) == LP_HDR_SIZE + SeqSum([i \in 1..Len(lp) |-> lpEntrySize(lp[i])]) + 1

lpEstimateBytesRepeatedInteger(v, rep) == LP_HDR_SIZE + lpEntrySize(lpIntEntry(v)) * rep + 1

\* lpSafeToAdd(lp, add); lp may be NULL (<<>> with no header counted).
lpSafeToAdd(bytes, add) == bytes + add <= lp_max_safety_size

\* Whether entry e equals the searched bytes s (the comparison of lpFind):
\* a string entry by its bytes, an integer entry by the integer s parses to.
lpEntryMatches(e, s) ==
    IF lpIsInt(e) THEN string2ll(s).ok /\ string2ll(s).value = e.int
    ELSE e.str = s

\* lpFind from lpFirst: the position of the first match, 0 (NULL) if none.
lpFind(lp, s) ==
    IF \E i \in 1..Len(lp) : lpEntryMatches(lp[i], s)
    THEN CHOOSE i \in 1..Len(lp) :
            /\ lpEntryMatches(lp[i], s)
            /\ \A j \in 1..(i - 1) : ~lpEntryMatches(lp[j], s)
    ELSE 0

lpDelete(lp, p) == RemoveAt(lp, p)

(***************************************************************************)
(* intset: a sorted sequence of distinct integers.                         *)
(***************************************************************************)

intsetNew == <<>>

intsetLen(is) == Len(is)

intsetFind(is, v) == \E i \in 1..Len(is) : is[i] = v

\* intsetAdd: [is, success]; the value goes to its place in the order.
intsetAdd(is, v) ==
    IF intsetFind(is, v) THEN [is |-> is, success |-> FALSE]
    ELSE LET pos == Cardinality({i \in 1..Len(is) : is[i] < v}) + 1
         IN  [is |-> InsertAt(is, pos, v), success |-> TRUE]

\* intsetRemove: [is, success].
intsetRemove(is, v) ==
    IF intsetFind(is, v)
    THEN [is |-> RemoveAt(is, CHOOSE i \in 1..Len(is) : is[i] = v), success |-> TRUE]
    ELSE [is |-> is, success |-> FALSE]

intsetMin(is) == is[1]

intsetMax(is) == is[Len(is)]

(***************************************************************************)
(* Set values: an encoding tag and the store it owns.                      *)
(***************************************************************************)

OBJ_ENCODING_INTSET == "intset"

OBJ_ENCODING_LISTPACK == "listpack"

OBJ_ENCODING_HT == "hashtable"

OBJ_ENCODING_QUICKLIST == "quicklist"

\* The three stores of a set.  A dict is modelled by its keys and the number
\* of keys its table has room for (cap).
IntsetStore(is) == [kind |-> "intset", ints |-> is]

ListpackStore(lp) == [kind |-> "listpack", entries |-> lp]

DictStore(keys) == [kind |-> "dict", keys |-> keys, cap |-> Cardinality(keys)]

\* dictExpand(d, size): the table gets room for size keys.
dictExpand(d, size) == [d EXCEPT !.cap = Max(@, size)]

\* dictAdd(d, key, NULL) of a key the dict does not hold: the table grows
\* when it is full.
dictAdd(d, key) == [d EXCEPT !.keys = @ \cup {key}, !.cap = Max(@, Cardinality(d.keys \cup {key}))]

createIntsetObject == [encoding |-> OBJ_ENCODING_INTSET, ptr |-> IntsetStore(intsetNew)]

createSetListpackObject == [encoding |-> OBJ_ENCODING_LISTPACK, ptr |-> ListpackStore(lpNew)]

createSetObject == [encoding |-> OBJ_ENCODING_HT, ptr |-> DictStore({})]

\* The outcome of a facade call: the set afterwards, the value returned and,
\* when an assertion failed or serverPanic was reached, its message.
Done(s, r) == [set |-> s, ret |-> r, panic |-> ""]

Fatal(s, msg) == [set |-> s, ret |-> 0, panic |-> msg]

C_OK == 0

C_ERR == -1

\* Mutant of setTypeCreate: the hash table is not presized.
setTypeCreate_NoExpand(value, size_hint) ==
    IF isSdsRepresentableAsLongLong(value) /\ size_hint <= set_max_intset_entries
    THEN createIntsetObject
    ELSE IF size_hint <= set_max_listpack_entries
    THEN createSetListpackObject
    ELSE createSetObject

\* setTypeCreate(value, size_hint)
setTypeCreate(value, size_hint) ==
    IF isSdsRepresentableAsLongLong(value) /\ size_hint <= set_max_intset_entries
    THEN createIntsetObject
    ELSE IF size_hint <= set_max_listpack_entries
    THEN createSetListpackObject
    ELSE [createSetObject EXCEPT !.ptr = dictExpand(@, size_hint)]

intsetMaxEntries ==
    IF set_max_intset_entries >= 2^30 THEN 2^30 ELSE set_max_intset_entries

setTypeSize(subject) ==
    IF subject.encoding = OBJ_ENCODING_HT THEN Cardinality(subject.ptr.keys)
    ELSE IF subject.encoding = OBJ_ENCODING_INTSET THEN intsetLen(subject.ptr.ints)
    ELSE lpLength(subject.ptr.entries)

\* What a full iteration with setTypeNext yields, in order: each element a
\* string ([str |-> bytes]) or an integer ([int |-> v], str NULL).  A hash
\* table is walked in the order htorder of its keys.
setTypeElements(subject, htorder) ==
    IF subject.encoding = OBJ_ENCODING_HT
    THEN [i \in 1..Len(htorder) |-> lpStrEntry(htorder[i])]
    ELSE IF subject.encoding = OBJ_ENCODING_INTSET
    THEN [i \in 1..Len(subject.ptr.ints) |-> lpIntEntry(subject.ptr.ints[i])]
    ELSE subject.ptr.entries

\* setTypeNextObject: the element as a new sds string.
setTypeNextObject(e) == IF lpIsInt(e) THEN ll2string(e.int) ELSE e.str

RECURSIVE lpAppendAll_DropLast(_, _)
\* Mutant of lpAppendAll: the drain loop stops one element early.
lpAppendAll_DropLast(lp, elems) ==
    IF Len(elems) <= 1 THEN lp
    ELSE lpAppendAll_DropLast(IF lpIsInt(Head(elems))
                              THEN lpAppendInteger(lp, Head(elems).int)
                              ELSE lpAppend(lp, Head(elems).str),
                              Tail(elems))

RECURSIVE lpAppendAll(_, _)
\* The drain loop of the listpack target: strings by lpAppend, integers by
\* lpAppendInteger.
lpAppendAll(lp, elems) ==
    IF Len(elems) = 0 THEN lp
    ELSE lpAppendAll(IF lpIsInt(Head(elems))
                     THEN lpAppendInteger(lp, Head(elems).int)
                     ELSE lpAppend(lp, Head(elems).str),
                     Tail(elems))

\* Mutant of setTypeConvertAndExpand: the old store is released before the
\* new table is presized, so a failed presizing leaves an empty hash table.
setTypeConvertAndExpand_FreesFirst(setobj, enc, cap, panic, expandOk, htorder) ==
    IF setobj.encoding = enc THEN Fatal(setobj, "setobj->encoding != enc")
    ELSE IF enc = OBJ_ENCODING_HT
    THEN IF ~panic /\ ~expandOk THEN Done(createSetObject, C_ERR)
         ELSE LET elems == setTypeElements(setobj, htorder)
                  keys  == {setTypeNextObject(elems[i]) : i \in 1..Len(elems)}
              IN  IF Cardinality(keys) # Len(elems)
                  THEN Fatal(setobj, "dictAdd(d,element,NULL) == DICT_OK")
                  ELSE Done([encoding |-> OBJ_ENCODING_HT,
                             ptr |-> dictExpand(DictStore(keys), cap)], C_OK)
    ELSE IF enc = OBJ_ENCODING_LISTPACK
    THEN Done([encoding |-> OBJ_ENCODING_LISTPACK,
               ptr |-> ListpackStore(lpAppendAll(lpNew, setTypeElements(setobj, htorder)))],
              C_OK)
    ELSE Fatal(setobj, "Unsupported set conversion")

\* setTypeConvertAndExpand(setobj, enc, cap, panic).  expandOk is whether
\* dictTryExpand succeeds; htorder the iteration order of a hash table source.
setTypeConvertAndExpand(setobj, enc, cap, panic, expandOk, htorder) ==
    IF setobj.encoding = enc THEN Fatal(setobj, "setobj->encoding != enc")
    ELSE IF enc = OBJ_ENCODING_HT
    THEN IF ~panic /\ ~expandOk THEN Done(setobj, C_ERR)
         ELSE LET elems == setTypeElements(setobj, htorder)
                  keys  == {setTypeNextObject(elems[i]) : i \in 1..Len(elems)}
              IN  IF Cardinality(keys) # Len(elems)
                  THEN Fatal(setobj, "dictAdd(d,element,NULL) == DICT_OK")
                  ELSE Done([encoding |-> OBJ_ENCODING_HT,
                             ptr |-> dictExpand(DictStore(keys), cap)], C_OK)
    ELSE IF enc = OBJ_ENCODING_LISTPACK
    THEN Done([encoding |-> OBJ_ENCODING_LISTPACK,
               ptr |-> ListpackStore(lpAppendAll(lpNew, setTypeElements(setobj, htorder)))],
              C_OK)
    ELSE Fatal(setobj, "Unsupported set conversion")

\* Mutant of setTypeConvert: the encoding asked for is the one the set has.
setTypeConvert_Same(setobj, enc) ==
    setTypeConvertAndExpand(setobj, setobj.encoding, setTypeSize(setobj), TRUE, TRUE, <<>>)

\* setTypeConvert(setobj, enc): presized to the current size, panics on OOM.
setTypeConvert(setobj, enc) ==
    setTypeConvertAndExpand(setobj, enc, setTypeSize(setobj), TRUE, TRUE, <<>>)

\* Mutant of maybeConvertIntset: an intset over its maximum becomes a listpack.
maybeConvertIntset_ToListpack(subject) ==
    IF subject.encoding # OBJ_ENCODING_INTSET
    THEN Fatal(subject, "subject->encoding == OBJ_ENCODING_INTSET")
    ELSE IF intsetLen(subject.ptr.ints) > intsetMaxEntries
    THEN setTypeConvert(subject, OBJ_ENCODING_LISTPACK)
    ELSE Done(subject, C_OK)

\* maybeConvertIntset: to a hash table when the intset is over its maximum.
maybeConvertIntset(subject) ==
    IF subject.encoding # OBJ_ENCODING_INTSET
    THEN Fatal(subject, "subject->encoding == OBJ_ENCODING_INTSET")
    ELSE IF intsetLen(subject.ptr.ints) > intsetMaxEntries
    THEN setTypeConvert(subject, OBJ_ENCODING_HT)
    ELSE Done(subject, C_OK)

\* Mutant of AssertDictAdd: the conversion is done and 1 returned, but the new
\* value is never inserted into the new table.
AssertDictAdd_NoInsert(conv, key, r) ==
    IF conv.panic # "" THEN conv ELSE Done(conv.set, r)

\* dictAdd after a conversion inside Add, under serverAssert.
AssertDictAdd(conv, key, r) ==
    IF conv.panic # "" THEN conv
    ELSE IF key \in conv.set.ptr.keys THEN Fatal(conv.set, "dictAdd(set->ptr,...) == DICT_OK")
    ELSE Done([conv.set EXCEPT !.ptr = dictAdd(@, key)], r)

\* The value returned by Add once maybeConvertIntset has run.
AfterMaybeConvert(conv, r) == IF conv.panic # "" THEN conv ELSE Done(conv.set, r)

\* An argument of the Aux functions: an sds string ([str |-> bytes]) or,
\* with str NULL, an integer ([ll |-> v]).
SdsArg(s) == [str |-> s]

LLArg(v) == [ll |-> v]

ArgIsLL(arg) == "ll" \in DOMAIN arg

\* Mutant of ArgStr: the integer is rendered into a buffer that holds only
\* its first character.
ArgStr_Truncated(arg) == IF ArgIsLL(arg) THEN SubSeq(ll2string(arg.ll), 1, 1) ELSE arg.str

\* The bytes the argument stands for (tmpbuf after ll2string for an integer).
ArgStr(arg) == IF ArgIsLL(arg) THEN ll2string(arg.ll) ELSE arg.str

\* The listpack branch of setTypeAddAux.
setTypeAddListpack_NoLength(set, arg) ==
    LET str == ArgStr(arg)
        lp  == set.ptr.entries
        p   == lpFind(lp, str)
    IN  IF p # 0 THEN Done(set, 0)
        ELSE IF /\ lpLength(lp) < set_max_listpack_entries
                /\ lpSafeToAdd(lpBytes(lp), Len(str))
        THEN Done([set EXCEPT !.ptr.entries =
                      IF ArgIsLL(arg) THEN lpAppendInteger(lp, arg.ll)
                      ELSE lpAppend(lp, str)], 1)
        ELSE AssertDictAdd(
                 setTypeConvertAndExpand(set, OBJ_ENCODING_HT, lpLength(lp) + 1,
                                         TRUE, TRUE, <<>>),
                 str, 1)

setTypeAddListpack(set, arg) ==
    LET str == ArgStr(arg)
        len == Len(str)
        lp  == set.ptr.entries
        p   == lpFind(lp, str)
    IN  IF p # 0 THEN Done(set, 0)
        ELSE IF /\ lpLength(lp) < set_max_listpack_entries
                /\ len <= set_max_listpack_value
                /\ lpSafeToAdd(lpBytes(lp), len)
        THEN Done([set EXCEPT !.ptr.entries =
                      IF ArgIsLL(arg) THEN lpAppendInteger(lp, arg.ll)
                      ELSE lpAppend(lp, str)], 1)
        ELSE AssertDictAdd(
                 setTypeConvertAndExpand(set, OBJ_ENCODING_HT, lpLength(lp) + 1,
                                         TRUE, TRUE, <<>>),
                 str, 1)

\* Mutant of setTypeAddIntset: the width of the integers already in the set is
\* not tested against the element length bound.
setTypeAddIntset_NoWidth(set, str) ==
    LET len == Len(str)
        is  == set.ptr.ints
        n   == intsetLen(is)
    IN  IF string2ll(str).ok
        THEN LET r == intsetAdd(is, string2ll(str).value)
             IN  IF r.success
                 THEN AfterMaybeConvert(maybeConvertIntset([set EXCEPT !.ptr.ints = r.is]), 1)
                 ELSE Done(set, 0)
        ELSE LET totsize == IF n # 0
                            THEN Max(lpEstimateBytesRepeatedInteger(intsetMax(is), n),
                                     lpEstimateBytesRepeatedInteger(intsetMin(is), n))
                            ELSE 0
             IN  IF /\ n < set_max_listpack_entries
                    /\ len <= set_max_listpack_value
                    /\ lpSafeToAdd(0, totsize + len)
                 THEN LET conv == setTypeConvertAndExpand(set, OBJ_ENCODING_LISTPACK,
                                                          n + 1, TRUE, TRUE, <<>>)
                      IN  IF conv.panic # "" THEN conv
                          ELSE Done([conv.set EXCEPT !.ptr.entries = lpAppend(@, str)], 1)
                 ELSE AssertDictAdd(
                          setTypeConvertAndExpand(set, OBJ_ENCODING_HT, n + 1,
                                                  TRUE, TRUE, <<>>),
                          str, 1)

\* The intset branch of setTypeAddAux for a value given as bytes.
setTypeAddIntset(set, str) ==
    LET len == Len(str)
        is  == set.ptr.ints
        n   == intsetLen(is)
    IN  IF string2ll(str).ok
        THEN LET r == intsetAdd(is, string2ll(str).value)
             IN  IF r.success
                 THEN AfterMaybeConvert(maybeConvertIntset([set EXCEPT !.ptr.ints = r.is]), 1)
                 ELSE Done(set, 0)
        ELSE LET maxelelen == IF n # 0
                              THEN Max(sdigits10(intsetMax(is)), sdigits10(intsetMin(is)))
                              ELSE 0
                 totsize   == IF n # 0
                              THEN Max(lpEstimateBytesRepeatedInteger(intsetMax(is), n),
                                       lpEstimateBytesRepeatedInteger(intsetMin(is), n))
                              ELSE 0
             IN  IF /\ n < set_max_listpack_entries
                    /\ len <= set_max_listpack_value
                    /\ maxelelen <= set_max_listpack_value
                    /\ lpSafeToAdd(0, totsize + len)
                 THEN LET conv == setTypeConvertAndExpand(set, OBJ_ENCODING_LISTPACK,
                                                          n + 1, TRUE, TRUE, <<>>)
                      IN  IF conv.panic # "" THEN conv
                          ELSE Done([conv.set EXCEPT !.ptr.entries = lpAppend(@, str)], 1)
                 ELSE AssertDictAdd(
                          setTypeConvertAndExpand(set, OBJ_ENCODING_HT, n + 1,
                                                  TRUE, TRUE, <<>>),
                          str, 1)

\* setTypeAddAux(set, str, len, llval, str_is_sds): 1 if added, 0 if it was
\* already a member.
setTypeAddAux(set, arg) ==
    IF ArgIsLL(arg) /\ set.encoding = OBJ_ENCODING_INTSET
    THEN LET r == intsetAdd(set.ptr.ints, arg.ll)
         IN  IF r.success
             THEN AfterMaybeConvert(maybeConvertIntset([set EXCEPT !.ptr.ints = r.is]), 1)
             ELSE Done(set, 0)
    ELSE IF set.encoding = OBJ_ENCODING_HT
    THEN IF ArgStr(arg) \in set.ptr.keys THEN Done(set, 0)
         ELSE Done([set EXCEPT !.ptr = dictAdd(@, ArgStr(arg))], 1)
    ELSE IF set.encoding = OBJ_ENCODING_LISTPACK
    THEN setTypeAddListpack(set, arg)
    ELSE IF set.encoding = OBJ_ENCODING_INTSET
    THEN setTypeAddIntset(set, ArgStr(arg))
    ELSE Fatal(set, "Unknown set encoding")

\* setTypeAdd(subject, value): the value as an sds string.
setTypeAdd(subject, value) == setTypeAddAux(subject, SdsArg(value))

\* setTypeRemoveAux(setobj, str, len, llval, str_is_sds): 1 if deleted, 0 if
\* the value was no member.
setTypeRemoveAux(setobj, arg) ==
    IF ArgIsLL(arg) /\ setobj.encoding = OBJ_ENCODING_INTSET
    THEN LET r == intsetRemove(setobj.ptr.ints, arg.ll)
         IN  Done([setobj EXCEPT !.ptr.ints = r.is], IF r.success THEN 1 ELSE 0)
    ELSE IF setobj.encoding = OBJ_ENCODING_HT
    THEN IF ArgStr(arg) \in setobj.ptr.keys
         THEN Done([setobj EXCEPT !.ptr.keys = @ \ {ArgStr(arg)}], 1)
         ELSE Done(setobj, 0)
    ELSE IF setobj.encoding = OBJ_ENCODING_LISTPACK
    THEN LET p == lpFind(setobj.ptr.entries, ArgStr(arg))
         IN  IF p # 0
             THEN Done([setobj EXCEPT !.ptr.entries = lpDelete(@, p)], 1)
             ELSE Done(setobj, 0)
    ELSE IF setobj.encoding = OBJ_ENCODING_INTSET
    THEN LET v == string2ll(ArgStr(arg))
             r == intsetRemove(setobj.ptr.ints, v.value)
         IN  IF v.ok /\ r.success
             THEN Done([setobj EXCEPT !.ptr.ints = r.is], 1)
             ELSE Done(setobj, 0)
    ELSE Fatal(setobj, "Unknown set encoding")

\* Mutant of setTypeRemove: a set emptied by the removal is reset to the
\* smallest encoding.
setTypeRemove_Demote(setobj, value) ==
    LET r == setTypeRemoveAux(setobj, SdsArg(value))
    IN  IF r.panic = "" /\ r.ret = 1 /\ setTypeSize(r.set) = 0
        THEN Done(createIntsetObject, 1)
        ELSE r

setTypeRemove(setobj, value) == setTypeRemoveAux(setobj, SdsArg(value))

\* Mutant of setTypeIsMemberAux: a probe of an intset with a text that is no
\* integer turns the set into a listpack.
setTypeIsMemberAux_Converts(set, arg) ==
    IF ArgIsLL(arg) /\ set.encoding = OBJ_ENCODING_INTSET
    THEN Done(set, IF intsetFind(set.ptr.ints, arg.ll) THEN 1 ELSE 0)
    ELSE IF set.encoding = OBJ_ENCODING_LISTPACK
    THEN Done(set, IF lpFind(set.ptr.entries, ArgStr(arg)) # 0 THEN 1 ELSE 0)
    ELSE IF set.encoding = OBJ_ENCODING_INTSET
    THEN LET v == string2ll(ArgStr(arg))
         IN  IF v.ok THEN Done(set, IF intsetFind(set.ptr.ints, v.value) THEN 1 ELSE 0)
             ELSE Done([encoding |-> OBJ_ENCODING_LISTPACK,
                        ptr |-> ListpackStore([i \in 1..Len(set.ptr.ints) |->
                                                  lpIntEntry(set.ptr.ints[i])])], 0)
    ELSE IF set.encoding = OBJ_ENCODING_HT
    THEN Done(set, IF ArgStr(arg) \in set.ptr.keys THEN 1 ELSE 0)
    ELSE Fatal(set, "Unknown set encoding")

\* setTypeIsMemberAux(set, str, len, llval, str_is_sds): 1 if a member.
setTypeIsMemberAux(set, arg) ==
    IF ArgIsLL(arg) /\ set.encoding = OBJ_ENCODING_INTSET
    THEN Done(set, IF intsetFind(set.ptr.ints, arg.ll) THEN 1 ELSE 0)
    ELSE IF set.encoding = OBJ_ENCODING_LISTPACK
    THEN Done(set, IF lpFind(set.ptr.entries, ArgStr(arg)) # 0 THEN 1 ELSE 0)
    ELSE IF set.encoding = OBJ_ENCODING_INTSET
    THEN LET v == string2ll(ArgStr(arg))
         IN  Done(set, IF v.ok /\ intsetFind(set.ptr.ints, v.value) THEN 1 ELSE 0)
    ELSE IF set.encoding = OBJ_ENCODING_HT
    THEN Done(set, IF ArgStr(arg) \in set.ptr.keys THEN 1 ELSE 0)
    ELSE Fatal(set, "Unknown set encoding")

setTypeIsMember(subject, value) == setTypeIsMemberAux(subject, SdsArg(value))

\* Mutant of blobCopy: the copy is one element short of the blob.
blobCopy_Short(store) ==
    IF store.kind = "intset"
    THEN IntsetStore(SubSeq(store.ints, 1, Len(store.ints) - 1))
    ELSE ListpackStore(SubSeq(store.entries, 1, Len(store.entries) - 1))

\* zmalloc of the blob's length and memcpy of the blob: an intset or a
\* listpack with the same elements in the same order.
blobCopy(store) ==
    IF store.kind = "intset" THEN IntsetStore(store.ints)
    ELSE ListpackStore(store.entries)

RECURSIVE dupAddAll(_, _)
\* The loop of setTypeDup over a hash table: setTypeAdd of each element the
\* iterator yields.
dupAddAll(r, elems) ==
    IF Len(elems) = 0 \/ r.panic # "" THEN r
    ELSE dupAddAll(setTypeAdd(r.set, Head(elems).str), Tail(elems))

\* The object setTypeDup(o) builds; a hash table is walked in the order
\* htorder of its keys.
setTypeDupValue(o, htorder) ==
    IF o.encoding = OBJ_ENCODING_INTSET
    THEN Done([encoding |-> OBJ_ENCODING_INTSET, ptr |-> blobCopy(o.ptr)], 0)
    ELSE IF o.encoding = OBJ_ENCODING_LISTPACK
    THEN Done([encoding |-> OBJ_ENCODING_LISTPACK, ptr |-> blobCopy(o.ptr)], 0)
    ELSE IF o.encoding = OBJ_ENCODING_HT
    THEN dupAddAll(Done([createSetObject EXCEPT !.ptr = dictExpand(@, setTypeSize(o))], 0),
                   setTypeElements(o, htorder))
    ELSE Fatal(o, "Unknown set encoding")

\* Set objects by reference: an object is [encoding, addr] and the heap maps
\* the address to the store.
FreeCell == [kind |-> "free"]

NoObject == [encoding |-> "none", addr |-> 0]

\* zmalloc: an address not in use.
alloc(h) == CHOOSE a \in DOMAIN h : h[a] = FreeCell /\ \A b \in DOMAIN h : h[b] = FreeCell => a <= b

\* The value of the object o: its encoding and the store o->ptr points to.
Deref(o, h) == [encoding |-> o.encoding, ptr |-> h[o.addr]]

\* The object and the heap after a call on o that left the value r.set: a
\* conversion stores the new store at a new address and releases the old one,
\* any other call changes the store in place.
Commit(o, h, r) ==
    IF r.panic # "" THEN [obj |-> o, heap |-> h]
    ELSE IF r.set.encoding # o.encoding
    THEN LET a == alloc(h)
         IN  [obj |-> [encoding |-> r.set.encoding, addr |-> a],
              heap |-> [h EXCEPT ![a] = r.set.ptr, ![o.addr] = FreeCell]]
    ELSE [obj |-> o, heap |-> [h EXCEPT ![o.addr] = r.set.ptr]]

\* Mutant of setTypeDup: the new object points to the store of the original.
setTypeDup_Shared(o, h, htorder) ==
    [obj |-> [encoding |-> o.encoding, addr |-> o.addr], heap |-> h, panic |-> ""]

\* setTypeDup(o): a new object whose store is newly allocated.
setTypeDup(o, h, htorder) ==
    LET r == setTypeDupValue(Deref(o, h), htorder)
        a == alloc(h)
    IN  [obj |-> [encoding |-> r.set.encoding, addr |-> a],
         heap |-> [h EXCEPT ![a] = r.set.ptr],
         panic |-> r.panic]

(***************************************************************************)
(* quicklist: a sequence of nodes, each a packed node holding a listpack   *)
(* or a plain node holding one large element, and the fill it was created  *)
(* with.                                                                   *)
(***************************************************************************)

QUICKLIST_NODE_CONTAINER_PLAIN == "PLAIN"

QUICKLIST_NODE_CONTAINER_PACKED == "PACKED"

LIST_HEAD == "LIST_HEAD"

LIST_TAIL == "LIST_TAIL"

\* "No limit": the value of SIZE_MAX and UINT_MAX in the model.
SIZE_MAX == 2^30

UINT_MAX == 2^30

\* The byte limit a negative fill stands for.
quicklistNodeNegFillLimit(fill) == node_size_limit * (-fill)

\* quicklistNodeLimit(fill, &size, &count): a fill >= 0 is a count limit (at
\* least one entry), a negative fill a byte-size limit; never both.
quicklistNodeLimit(fill) ==
    IF fill >= 0
    THEN [sz |-> SIZE_MAX, count |-> IF fill = 0 THEN 1 ELSE fill]
    ELSE [sz |-> quicklistNodeNegFillLimit(fill), count |-> UINT_MAX]

\* quicklistNodeExceedsLimit(fill, new_sz, new_count)
quicklistNodeExceedsLimit(fill, new_sz, new_count) ==
    LET limit == quicklistNodeLimit(fill)
    IN  IF limit.sz # SIZE_MAX THEN new_sz > limit.sz
        ELSE new_count > limit.count

\* An element of at least packed_threshold bytes gets a plain node.
isLargeElement(sz) == sz >= packed_threshold

PackedNode(lp) == [container |-> QUICKLIST_NODE_CONTAINER_PACKED, entries |-> lp]

PlainNode(s) == [container |-> QUICKLIST_NODE_CONTAINER_PLAIN, entries |-> <<lpStrEntry(s)>>]

\* node->sz: the bytes of the node's listpack, or of its plain element.
NodeSz(node) ==
    IF node.container = QUICKLIST_NODE_CONTAINER_PLAIN THEN Len(node.entries[1].str)
    ELSE lpBytes(node.entries)

NodeCount(node) == Len(node.entries)

quicklistCreate == [kind |-> "quicklist", nodes |-> <<>>, fill |-> -2]

quicklistSetOptions(ql, fill) == [ql EXCEPT !.fill = fill]

\* quicklistAppendListpack: the whole listpack becomes one packed tail node.
quicklistAppendListpack(ql, lp) == [ql EXCEPT !.nodes = Append(@, PackedNode(lp))]

\* ql->count
quicklistCount(ql) == SeqSum([i \in 1..Len(ql.nodes) |-> NodeCount(ql.nodes[i])])

\* _quicklistNodeAllowInsert(node, fill, sz)
quicklistNodeAllowInsert(node, fill, s) ==
    /\ node.container # QUICKLIST_NODE_CONTAINER_PLAIN
    /\ ~isLargeElement(Len(s))
    /\ ~quicklistNodeExceedsLimit(fill, NodeSz(node) + lpEntrySize(lpEncode(s)),
                                  NodeCount(node) + 1)

\* quicklistPush(ql, value, sz, where)
quicklistPush(ql, s, where) ==
    LET n == Len(ql.nodes)
        fresh == IF isLargeElement(Len(s)) THEN PlainNode(s) ELSE PackedNode(lpAppend(lpNew, s))
    IN  IF where = LIST_HEAD
        THEN IF n > 0 /\ quicklistNodeAllowInsert(ql.nodes[1], ql.fill, s)
             THEN [ql EXCEPT !.nodes[1].entries = lpPrepend(@, s)]
             ELSE [ql EXCEPT !.nodes = <<fresh>> \o @]
        ELSE IF n > 0 /\ quicklistNodeAllowInsert(ql.nodes[n], ql.fill, s)
             THEN [ql EXCEPT !.nodes[n].entries = lpAppend(@, s)]
             ELSE [ql EXCEPT !.nodes = Append(@, fresh)]

\* quicklistPopCustom(ql, where, ...): [ql, found, value]; the value is the
\* element's bytes, an integer entry rendered in decimal.  An emptied node is
\* unlinked.
quicklistPopCustom(ql, where) ==
    LET n == Len(ql.nodes)
    IN  IF n = 0 THEN [ql |-> ql, found |-> FALSE, value |-> <<>>]
        ELSE LET i    == IF where = LIST_HEAD THEN 1 ELSE n
                 node == ql.nodes[i]
                 k    == IF where = LIST_HEAD THEN 1 ELSE Len(node.entries)
                 rest == RemoveAt(node.entries, k)
             IN  [ql    |-> IF Len(rest) = 0
                            THEN [ql EXCEPT !.nodes = RemoveAt(@, i)]
                            ELSE [ql EXCEPT !.nodes[i].entries = rest],
                  found |-> TRUE,
                  value |-> lpGet(node.entries[k])]

RECURSIVE Flatten(_)
\* The entries of all nodes, head to tail.
Flatten(nodes) == IF Len(nodes) = 0 THEN <<>> ELSE Head(nodes).entries \o Flatten(Tail(nodes))

(***************************************************************************)
(* List values (src/src/t_list.c).                                         *)
(***************************************************************************)

LIST_CONV_AUTO == "LIST_CONV_AUTO"

LIST_CONV_GROWING == "LIST_CONV_GROWING"

LIST_CONV_SHRINKING == "LIST_CONV_SHRINKING"

OBJ_ENCODING_INT == "int"

OBJ_ENCODING_RAW == "raw"

\* String objects handed to the list calls: sds encoded, or integer encoded.
RawObject(s) == [encoding |-> OBJ_ENCODING_RAW, sds |-> s]

IntObject(v) == [encoding |-> OBJ_ENCODING_INT, long |-> v]

sdsEncodedObject(o) == o.encoding = OBJ_ENCODING_RAW

createListListpackObject == [encoding |-> OBJ_ENCODING_LISTPACK, ptr |-> ListpackStore(lpNew)]

\* The outcome of a list call: the list afterwards, the value returned (a
\* sequence of at most one byte string for Pop), what the before-conversion
\* callback saw each time it ran, and the fatal message if any.
ListDone(l, r, cb) == [list |-> l, ret |-> r, cb |-> cb, panic |-> ""]

ListFatal(l, msg) == [list |-> l, ret |-> <<>>, cb |-> <<>>, panic |-> msg]

\* Mutant of addBytes: the bytes of the elements about to be added are not
\* counted, so the check sees the bytes of the list as it is.
addBytes_NotCounted(argv) == 0

RECURSIVE addBytes(_)
\* The loop over argv[start..end]: only sds encoded objects add their length.
addBytes(argv) ==
    IF Len(argv) = 0 THEN 0
    ELSE (IF sdsEncodedObject(Head(argv)) THEN Len(Head(argv).sds) ELSE 0) + addBytes(Tail(argv))

\* Mutant of listpackToQuicklist: the emptiness test is inverted, so a
\* listpack that holds elements is released instead of appended.
listpackToQuicklist_Inverted(o, fill) ==
    LET ql == quicklistSetOptions(quicklistCreate, fill)
    IN  [encoding |-> OBJ_ENCODING_QUICKLIST,
         ptr |-> IF lpLength(o.ptr.entries) = 0
                 THEN quicklistAppendListpack(ql, o.ptr.entries)
                 ELSE ql]

\* The conversion of listTypeTryConvertListpack: a new quicklist with the
\* configured options; the listpack becomes its only node unless it is empty.
listpackToQuicklist(o, fill) ==
    LET ql == quicklistSetOptions(quicklistCreate, fill)
    IN  [encoding |-> OBJ_ENCODING_QUICKLIST,
         ptr |-> IF lpLength(o.ptr.entries) # 0
                 THEN quicklistAppendListpack(ql, o.ptr.entries)
                 ELSE ql]

\* Mutant of listTypeTryConvertListpack: the callback runs after the store and
\* the tag are swapped.
listTypeTryConvertListpack_CallbackLate(o, argv, fill) ==
    IF o.encoding # OBJ_ENCODING_LISTPACK
    THEN ListFatal(o, "o->encoding == OBJ_ENCODING_LISTPACK")
    ELSE LET lp         == o.ptr.entries
             add_bytes  == addBytes(argv)
             add_length == Len(argv)
         IN  IF quicklistNodeExceedsLimit(fill, lpBytes(lp) + add_bytes,
                                          lpLength(lp) + add_length)
             THEN ListDone(listpackToQuicklist(o, fill), <<>>,
                           <<listpackToQuicklist(o, fill)>>)
             ELSE ListDone(o, <<>>, <<>>)

\* listTypeTryConvertListpack(o, argv, start, end, fn, data); argv = <<>>
\* stands for argv == NULL.
listTypeTryConvertListpack(o, argv, fill) ==
    IF o.encoding # OBJ_ENCODING_LISTPACK
    THEN ListFatal(o, "o->encoding == OBJ_ENCODING_LISTPACK")
    ELSE LET lp         == o.ptr.entries
             add_bytes  == addBytes(argv)
             add_length == Len(argv)
         IN  IF quicklistNodeExceedsLimit(fill, lpBytes(lp) + add_bytes,
                                          lpLength(lp) + add_length)
             THEN ListDone(listpackToQuicklist(o, fill), <<>>, <<o>>)
             ELSE ListDone(o, <<>>, <<>>)

\* Mutant of demotionLimit: the limits are never halved.
demotionLimit_NotHalved(fill, shrinking) == quicklistNodeLimit(fill)

\* The limits of listTypeTryConvertQuicklist: those of the configured fill,
\* both halved when the check is due to shrinking.
demotionLimit(fill, shrinking) ==
    LET limit == quicklistNodeLimit(fill)
    IN  IF shrinking
        THEN [sz |-> limit.sz \div 2, count |-> limit.count \div 2]
        ELSE limit

\* Mutant of overDemotionLimit: the list is kept only when both limits are
\* exceeded.
overDemotionLimit_Both(sz, count, limit) == sz > limit.sz /\ count > limit.count

\* The test that keeps the quicklist: the node's bytes or the element count
\* is over its limit.
overDemotionLimit(sz, count, limit) == sz > limit.sz \/ count > limit.count

\* Mutant of listTypeTryConvertQuicklist: the tag is changed and the store is
\* not.
listTypeTryConvertQuicklist_TagOnly(o, shrinking, fill) ==
    IF o.encoding # OBJ_ENCODING_QUICKLIST
    THEN ListFatal(o, "o->encoding == OBJ_ENCODING_QUICKLIST")
    ELSE LET ql    == o.ptr
             limit == demotionLimit(fill, shrinking)
         IN  IF Len(ql.nodes) # 1
             THEN ListDone(o, <<>>, <<>>)
             ELSE IF ql.nodes[1].container # QUICKLIST_NODE_CONTAINER_PACKED
             THEN ListDone(o, <<>>, <<>>)
             ELSE IF overDemotionLimit(NodeSz(ql.nodes[1]), quicklistCount(ql), limit)
             THEN ListDone(o, <<>>, <<>>)
             ELSE ListDone([o EXCEPT !.encoding = OBJ_ENCODING_LISTPACK], <<>>, <<o>>)

\* listTypeTryConvertQuicklist(o, shrinking, fn, data)
listTypeTryConvertQuicklist(o, shrinking, fill) ==
    IF o.encoding # OBJ_ENCODING_QUICKLIST
    THEN ListFatal(o, "o->encoding == OBJ_ENCODING_QUICKLIST")
    ELSE LET ql    == o.ptr
             limit == demotionLimit(fill, shrinking)
         IN  IF Len(ql.nodes) # 1
             THEN ListDone(o, <<>>, <<>>)
             ELSE IF ql.nodes[1].container # QUICKLIST_NODE_CONTAINER_PACKED
             THEN ListDone(o, <<>>, <<>>)
             ELSE IF overDemotionLimit(NodeSz(ql.nodes[1]), quicklistCount(ql), limit)
             THEN ListDone(o, <<>>, <<>>)
             ELSE ListDone([encoding |-> OBJ_ENCODING_LISTPACK,
                            ptr |-> ListpackStore(ql.nodes[1].entries)],
                           <<>>, <<o>>)

\* Mutant of listTypeTryConversionRaw: the trigger is not looked at, except
\* for the halving of the bound.
listTypeTryConversionRaw_AnyTrigger(o, lct, argv, fill) ==
    IF o.encoding = OBJ_ENCODING_QUICKLIST
    THEN listTypeTryConvertQuicklist(o, lct = LIST_CONV_SHRINKING, fill)
    ELSE IF o.encoding = OBJ_ENCODING_LISTPACK
    THEN listTypeTryConvertListpack(o, argv, fill)
    ELSE ListFatal(o, "Unknown list encoding")

\* listTypeTryConversionRaw(o, lct, argv, start, end, fn, data)
listTypeTryConversionRaw(o, lct, argv, fill) ==
    IF o.encoding = OBJ_ENCODING_QUICKLIST
    THEN IF lct = LIST_CONV_GROWING THEN ListDone(o, <<>>, <<>>)
         ELSE listTypeTryConvertQuicklist(o, lct = LIST_CONV_SHRINKING, fill)
    ELSE IF o.encoding = OBJ_ENCODING_LISTPACK
    THEN IF lct = LIST_CONV_SHRINKING THEN ListDone(o, <<>>, <<>>)
         ELSE listTypeTryConvertListpack(o, argv, fill)
    ELSE ListFatal(o, "Unknown list encoding")

\* listTypeTryConversion(o, lct, fn, data): no argv.
listTypeTryConversion(o, lct, fill) == listTypeTryConversionRaw(o, lct, <<>>, fill)

\* Mutant of listTypeTryConversionAppend: the elements about to be added are
\* not handed to the check.
listTypeTryConversionAppend_NoArgv(o, argv, fill) ==
    listTypeTryConversionRaw(o, LIST_CONV_GROWING, <<>>, fill)

\* listTypeTryConversionAppend(o, argv, start, end, fn, data)
listTypeTryConversionAppend(o, argv, fill) ==
    listTypeTryConversionRaw(o, LIST_CONV_GROWING, argv, fill)

\* What a write hands to the backend: bytes, or an integer as an integer.
BytesArg(s) == [form |-> "bytes", bytes |-> s, long |-> 0]

IntegerArg(v) == [form |-> "integer", bytes |-> <<>>, long |-> v]

\* Mutant of listTypePushCall: the listpack branch has no integer path.
listTypePushCall_NoFastPath(subject, value, where) ==
    LET str == IF value.encoding = OBJ_ENCODING_INT THEN ll2string(value.long) ELSE value.sds
    IN  IF subject.encoding = OBJ_ENCODING_QUICKLIST
        THEN [fn |-> "quicklistPush", arg |-> BytesArg(str)]
        ELSE [fn |-> IF where = LIST_HEAD THEN "lpPrepend" ELSE "lpAppend",
              arg |-> BytesArg(str)]

\* The backend call of listTypePush(subject, value, where) and the form its
\* value is handed over in.
listTypePushCall(subject, value, where) ==
    IF subject.encoding = OBJ_ENCODING_QUICKLIST
    THEN IF value.encoding = OBJ_ENCODING_INT
         THEN [fn |-> "quicklistPush", arg |-> BytesArg(ll2string(value.long))]
         ELSE [fn |-> "quicklistPush", arg |-> BytesArg(value.sds)]
    ELSE IF value.encoding = OBJ_ENCODING_INT
         THEN [fn |-> IF where = LIST_HEAD THEN "lpPrependInteger" ELSE "lpAppendInteger",
               arg |-> IntegerArg(value.long)]
         ELSE [fn |-> IF where = LIST_HEAD THEN "lpPrepend" ELSE "lpAppend",
               arg |-> BytesArg(value.sds)]

\* The quicklist branch of listTypePush: an integer encoded value is pushed
\* as its decimal text.
listTypePushQuicklist(subject, value, where) ==
    IF value.encoding = OBJ_ENCODING_INT
    THEN [subject EXCEPT !.ptr = quicklistPush(@, ll2string(value.long), where)]
    ELSE [subject EXCEPT !.ptr = quicklistPush(@, value.sds, where)]

\* The listpack branch of listTypePush.
listTypePushListpack(subject, value, where) ==
    IF value.encoding = OBJ_ENCODING_INT
    THEN [subject EXCEPT !.ptr.entries =
             IF where = LIST_HEAD THEN lpPrependInteger(@, value.long)
             ELSE lpAppendInteger(@, value.long)]
    ELSE [subject EXCEPT !.ptr.entries =
             IF where = LIST_HEAD THEN lpPrepend(@, value.sds)
             ELSE lpAppend(@, value.sds)]

\* Mutant of listTypePush: the quicklist branch pushes at the tail whatever
\* the requested end.
listTypePush_AlwaysTail(subject, value, where) ==
    IF subject.encoding = OBJ_ENCODING_QUICKLIST
    THEN ListDone(listTypePushQuicklist(subject, value, LIST_TAIL), <<>>, <<>>)
    ELSE IF subject.encoding = OBJ_ENCODING_LISTPACK
    THEN ListDone(listTypePushListpack(subject, value, where), <<>>, <<>>)
    ELSE ListFatal(subject, "Unknown list encoding")

\* listTypePush(subject, value, where)
listTypePush(subject, value, where) ==
    IF subject.encoding = OBJ_ENCODING_QUICKLIST
    THEN ListDone(listTypePushQuicklist(subject, value, where), <<>>, <<>>)
    ELSE IF subject.encoding = OBJ_ENCODING_LISTPACK
    THEN ListDone(listTypePushListpack(subject, value, where), <<>>, <<>>)
    ELSE ListFatal(subject, "Unknown list encoding")

\* Mutant of listTypePop: a quicklist left with no element by the pop becomes
\* a listpack.
listTypePop_Shrinks(subject, where) ==
    IF subject.encoding = OBJ_ENCODING_QUICKLIST
    THEN LET r == quicklistPopCustom(subject.ptr, where)
         IN  IF r.found
             THEN ListDone(IF quicklistCount(r.ql) = 0 THEN createListListpackObject
                           ELSE [subject EXCEPT !.ptr = r.ql],
                           <<r.value>>, <<>>)
             ELSE ListDone(subject, <<>>, <<>>)
    ELSE IF subject.encoding = OBJ_ENCODING_LISTPACK
    THEN LET lp == subject.ptr.entries
             p  == IF where = LIST_HEAD THEN 1 ELSE Len(lp)
         IN  IF Len(lp) > 0
             THEN ListDone([subject EXCEPT !.ptr.entries = lpDelete(@, p)], <<lpGet(lp[p])>>, <<>>)
             ELSE ListDone(subject, <<>>, <<>>)
    ELSE ListFatal(subject, "Unknown list encoding")

\* listTypePop(subject, where): the popped value, or NULL (<<>>).
listTypePop(subject, where) ==
    IF subject.encoding = OBJ_ENCODING_QUICKLIST
    THEN LET r == quicklistPopCustom(subject.ptr, where)
         IN  IF r.found THEN ListDone([subject EXCEPT !.ptr = r.ql], <<r.value>>, <<>>)
             ELSE ListDone(subject, <<>>, <<>>)
    ELSE IF subject.encoding = OBJ_ENCODING_LISTPACK
    THEN LET lp == subject.ptr.entries
             p  == IF where = LIST_HEAD THEN 1 ELSE Len(lp)
         IN  IF Len(lp) > 0
             THEN ListDone([subject EXCEPT !.ptr.entries = lpDelete(@, p)], <<lpGet(lp[p])>>, <<>>)
             ELSE ListDone(subject, <<>>, <<>>)
    ELSE ListFatal(subject, "Unknown list encoding")

\* listTypeLength(subject)
listTypeLength(subject) ==
    IF subject.encoding = OBJ_ENCODING_QUICKLIST THEN quicklistCount(subject.ptr)
    ELSE lpLength(subject.ptr.entries)

(***************************************************************************)
(* Cursors.  A pointer into a listpack is the position of its element, 0   *)
(* for NULL; an entry of a quicklist is the position of its element in the *)
(* whole list.                                                              *)
(***************************************************************************)

\* lpSeek(lp, index): index counts from the head (0, 1, ...) or from the tail
\* (-1, -2, ...); NULL when out of range.
lpSeek(lp, index) ==
    IF index >= 0 THEN (IF index < Len(lp) THEN index + 1 ELSE 0)
    ELSE (IF -index <= Len(lp) THEN Len(lp) + index + 1 ELSE 0)

lpFirst(lp) == IF Len(lp) = 0 THEN 0 ELSE 1

lpLast(lp) == Len(lp)

lpNext(lp, p) == IF p < Len(lp) THEN p + 1 ELSE 0

lpPrev(lp, p) == p - 1

\* lpInsertString(lp, s, size, p, where, &newp): [lp, newp]
lpInsertString(lp, s, p, after) ==
    LET k == IF after THEN p + 1 ELSE p
    IN  [lp |-> InsertAt(lp, k, lpEncode(s)), newp |-> k]

RECURSIVE quicklistNodeAt(_, _)
\* The node (index) and the offset in it (from 1) of the element at position
\* pos of the whole list.
quicklistNodeAt(nodes, pos) ==
    IF pos <= NodeCount(Head(nodes)) THEN [node |-> 1, offset |-> pos]
    ELSE LET r == quicklistNodeAt(Tail(nodes), pos - NodeCount(Head(nodes)))
         IN  [node |-> r.node + 1, offset |-> r.offset]

\* quicklistGetIteratorAtIdx(ql, direction, idx): the first quicklistNext
\* yields the element at idx, if there is one.
quicklistGetIteratorAtIdx(ql, direction, idx) ==
    [pos |-> lpSeek(Flatten(ql.nodes), idx), fresh |-> TRUE, direction |-> direction]

\* quicklistNext(iter, &entry): [iter, pos]; pos = 0 when it returns 0.
quicklistNext(iter, ql) ==
    LET n == quicklistCount(ql)
        p == IF iter.pos = 0 THEN 0
             ELSE IF iter.fresh THEN iter.pos
             ELSE IF iter.direction = LIST_TAIL THEN iter.pos + 1
             ELSE iter.pos - 1
        q == IF p >= 1 /\ p <= n THEN p ELSE 0
    IN  [iter |-> [iter EXCEPT !.pos = q, !.fresh = FALSE], pos |-> q]

\* quicklistSetDirection(iter, direction)
quicklistSetDirection(iter, direction) == [iter EXCEPT !.direction = direction]

\* The quicklist without the element at position pos; an emptied node is
\* unlinked.
quicklistDelAt(ql, pos) ==
    LET at   == quicklistNodeAt(ql.nodes, pos)
        rest == RemoveAt(ql.nodes[at.node].entries, at.offset)
    IN  IF Len(rest) = 0 THEN [ql EXCEPT !.nodes = RemoveAt(@, at.node)]
        ELSE [ql EXCEPT !.nodes[at.node].entries = rest]

\* quicklistDelEntry(iter, entry): [ql, iter]; the iterator goes on with the
\* element that follows the deleted one in its direction.
quicklistDelEntry(iter, pos, ql) ==
    [ql   |-> quicklistDelAt(ql, pos),
     iter |-> IF iter.direction = LIST_TAIL
              THEN [iter EXCEPT !.pos = IF pos <= quicklistCount(ql) - 1 THEN pos ELSE 0,
                                !.fresh = TRUE]
              ELSE [iter EXCEPT !.pos = pos - 1, !.fresh = TRUE]]

\* quicklistInsertAfter / quicklistInsertBefore (iter, entry, value, sz):
\* [ql, iter].  The element goes into the entry's node if that node takes it;
\* otherwise the node is split around a new node.  The iterator stays on the
\* entry's element.
quicklistInsert(iter, pos, ql, s, after) ==
    LET at    == quicklistNodeAt(ql.nodes, pos)
        node  == ql.nodes[at.node]
        k     == IF after THEN at.offset + 1 ELSE at.offset
        fresh == IF isLargeElement(Len(s)) THEN PlainNode(s) ELSE PackedNode(lpAppend(lpNew, s))
        left  == SubSeq(node.entries, 1, k - 1)
        right == SubSeq(node.entries, k, Len(node.entries))
        parts == (IF Len(left) = 0 THEN <<>> ELSE <<[node EXCEPT !.entries = left]>>)
                 \o <<fresh>>
                 \o (IF Len(right) = 0 THEN <<>> ELSE <<[node EXCEPT !.entries = right]>>)
    IN  [ql   |-> IF quicklistNodeAllowInsert(node, ql.fill, s)
                  THEN [ql EXCEPT !.nodes[at.node].entries = InsertAt(@, k, lpEncode(s))]
                  ELSE [ql EXCEPT !.nodes = SubSeq(@, 1, at.node - 1) \o parts
                                            \o SubSeq(@, at.node + 1, Len(@))],
         iter |-> [iter EXCEPT !.pos = IF after THEN pos ELSE pos + 1, !.fresh = FALSE]]

(***************************************************************************)
(* List iterators.  A listTypeIterator is [encoding, direction, lpi, stale, *)
(* iter]: lpi is the listpack cursor, stale tells that the listpack has     *)
(* been reallocated since lpi was taken, iter is the quicklist iterator.    *)
(* A listTypeEntry is [live, lpe, pos].                                     *)
(***************************************************************************)

NoIterator == [encoding |-> "none"]

NoEntry == [live |-> FALSE, lpe |-> 0, pos |-> 0]

\* The outcome of an iterator call: the list, the iterator and the entry
\* afterwards, the value returned and the assertion that failed, if any.
IterDone(l, i, e, r) == [list |-> l, li |-> i, entry |-> e, ret |-> r, panic |-> ""]

IterFatal(l, i, e, msg) == [list |-> l, li |-> i, entry |-> e, ret |-> <<>>, panic |-> msg]

\* listTypeInitIterator(subject, index, direction)
listTypeInitIterator(subject, index, direction) ==
    IF subject.encoding = OBJ_ENCODING_QUICKLIST
    THEN [encoding |-> subject.encoding, direction |-> direction, lpi |-> 0, stale |-> FALSE,
          iter |-> quicklistGetIteratorAtIdx(subject.ptr, direction, index)]
    ELSE [encoding |-> subject.encoding, direction |-> direction,
          lpi |-> lpSeek(subject.ptr.entries, index), stale |-> FALSE,
          iter |-> quicklistGetIteratorAtIdx(quicklistCreate, direction, 0)]

\* Mutant of listTypeSetIteratorDirection: the listpack cursor is left where
\* it was.
listTypeSetIteratorDirection_NoSeek(li, entry, direction, subject) ==
    [li EXCEPT !.direction = direction,
               !.iter = quicklistSetDirection(@, direction)]

\* listTypeSetIteratorDirection(li, entry, direction)
listTypeSetIteratorDirection(li, entry, direction, subject) ==
    IF li.direction = direction THEN li
    ELSE IF li.encoding = OBJ_ENCODING_QUICKLIST
    THEN [li EXCEPT !.direction = direction, !.iter = quicklistSetDirection(@, direction)]
    ELSE [li EXCEPT !.direction = direction,
                    !.stale = FALSE,
                    !.lpi = IF direction = LIST_TAIL
                            THEN lpNext(subject.ptr.entries, entry.lpe)
                            ELSE lpPrev(subject.ptr.entries, entry.lpe)]

\* Mutant of listTypeNext: the listpack cursor always moves towards the tail.
listTypeNext_Forward(li, subject, ub) ==
    IF subject.encoding # li.encoding
    THEN IterFatal(subject, li, NoEntry, "li->subject->encoding == li->encoding")
    ELSE IF li.encoding = OBJ_ENCODING_QUICKLIST
    THEN LET r == quicklistNext(li.iter, subject.ptr)
         IN  IterDone(subject, [li EXCEPT !.iter = r.iter],
                      [live |-> r.pos # 0, lpe |-> 0, pos |-> r.pos],
                      <<IF r.pos # 0 THEN 1 ELSE 0>>)
    ELSE IF li.lpi # 0
         THEN IterDone(subject, [li EXCEPT !.lpi = lpNext(subject.ptr.entries, li.lpi)],
                       [live |-> TRUE, lpe |-> li.lpi, pos |-> 0], <<1>>)
         ELSE IterDone(subject, li, NoEntry, <<0>>)

\* listTypeNext(li, entry).  A cursor taken before the listpack was
\* reallocated is a dangling pointer: what is read through it is any element
\* or NULL (ub).
listTypeNext(li, subject, ub) ==
    IF subject.encoding # li.encoding
    THEN IterFatal(subject, li, NoEntry, "li->subject->encoding == li->encoding")
    ELSE IF li.encoding = OBJ_ENCODING_QUICKLIST
    THEN LET r == quicklistNext(li.iter, subject.ptr)
         IN  IterDone(subject, [li EXCEPT !.iter = r.iter],
                      [live |-> r.pos # 0, lpe |-> 0, pos |-> r.pos],
                      <<IF r.pos # 0 THEN 1 ELSE 0>>)
    ELSE LET lpe == IF li.stale THEN ub ELSE li.lpi
         IN  IF lpe # 0
             THEN IterDone(subject,
                           [li EXCEPT !.stale = FALSE,
                                      !.lpi = IF li.direction = LIST_TAIL
                                              THEN lpNext(subject.ptr.entries, lpe)
                                              ELSE lpPrev(subject.ptr.entries, lpe)],
                           [live |-> TRUE, lpe |-> lpe, pos |-> 0], <<1>>)
             ELSE IterDone(subject, [li EXCEPT !.stale = FALSE, !.lpi = 0], NoEntry, <<0>>)

\* The position in the list of the element an entry stands for.
listTypeEntryPos(li, entry) ==
    IF li.encoding = OBJ_ENCODING_QUICKLIST THEN entry.pos ELSE entry.lpe

\* listTypeGet(entry): the bytes of the element.
listTypeGet(li, entry, subject) ==
    IF li.encoding = OBJ_ENCODING_QUICKLIST
    THEN lpGet(Flatten(subject.ptr.nodes)[entry.pos])
    ELSE lpGet(subject.ptr.entries[entry.lpe])

\* listTypeInsert(entry, value, where): the value in its decoded form goes
\* after (LIST_TAIL) or before (LIST_HEAD) the entry's element.  In a listpack
\* the entry is moved to the new element and the iterator is not touched, so
\* a cursor that is not NULL is left pointing into the listpack as it was.
listTypeInsert(li, entry, value, where, subject) ==
    LET str == IF value.encoding = OBJ_ENCODING_INT THEN ll2string(value.long) ELSE value.sds
    IN  IF li.encoding = OBJ_ENCODING_QUICKLIST
        THEN LET r == quicklistInsert(li.iter, entry.pos, subject.ptr, str, where = LIST_TAIL)
             IN  IterDone([subject EXCEPT !.ptr = r.ql], [li EXCEPT !.iter = r.iter],
                          entry, <<>>)
        ELSE LET r == lpInsertString(subject.ptr.entries, str, entry.lpe, where = LIST_TAIL)
             IN  IterDone([subject EXCEPT !.ptr.entries = r.lp],
                          [li EXCEPT !.stale = (li.lpi # 0)],
                          [entry EXCEPT !.lpe = r.newp], <<>>)

\* getDecodedObject(o): a string object is returned as it is, an integer
\* encoded one as a new string object holding its decimal text.
getDecodedObject(o) ==
    IF o.encoding = OBJ_ENCODING_INT THEN RawObject(ll2string(o.long)) ELSE o

\* The backend call of listTypeInsert(entry, value, where).
listTypeInsertCall(li, value, where) ==
    LET str == getDecodedObject(value).sds
    IN  IF li.encoding = OBJ_ENCODING_QUICKLIST
        THEN [fn |-> IF where = LIST_TAIL THEN "quicklistInsertAfter"
                     ELSE "quicklistInsertBefore",
              arg |-> BytesArg(str)]
        ELSE [fn |-> "lpInsertString", arg |-> BytesArg(str)]

\* lpReplace(lp, &p, s, slen)
lpReplace(lp, p, s) == [lp EXCEPT ![p] = lpEncode(s)]

\* quicklistReplaceEntry(iter, entry, data, sz): a small element replaces the
\* one in a packed node in place; otherwise the element leaves its node, which
\* is split around a new node holding the new one.
quicklistReplaceEntry(pos, ql, s) ==
    LET at    == quicklistNodeAt(ql.nodes, pos)
        node  == ql.nodes[at.node]
        fresh == IF isLargeElement(Len(s)) THEN PlainNode(s) ELSE PackedNode(lpAppend(lpNew, s))
        left  == SubSeq(node.entries, 1, at.offset - 1)
        right == SubSeq(node.entries, at.offset + 1, Len(node.entries))
        parts == (IF Len(left) = 0 THEN <<>> ELSE <<[node EXCEPT !.entries = left]>>)
                 \o <<fresh>>
                 \o (IF Len(right) = 0 THEN <<>> ELSE <<[node EXCEPT !.entries = right]>>)
    IN  IF node.container = QUICKLIST_NODE_CONTAINER_PACKED /\ ~isLargeElement(Len(s))
        THEN [ql EXCEPT !.nodes[at.node].entries = lpReplace(@, at.offset, s)]
        ELSE [ql EXCEPT !.nodes = SubSeq(@, 1, at.node - 1) \o parts
                                  \o SubSeq(@, at.node + 1, Len(@))]

\* The backend call of listTypeReplace(entry, value).
listTypeReplaceCall(li, value) ==
    LET str == getDecodedObject(value).sds
    IN  [fn |-> IF li.encoding = OBJ_ENCODING_QUICKLIST THEN "quicklistReplaceEntry"
                ELSE "lpReplace",
         arg |-> BytesArg(str)]

\* listTypeReplace(entry, value): the value in its decoded form takes the
\* place of the entry's element.
listTypeReplace(li, entry, value, subject) ==
    LET str == getDecodedObject(value).sds
    IN  IF li.encoding = OBJ_ENCODING_QUICKLIST
        THEN IterDone([subject EXCEPT !.ptr = quicklistReplaceEntry(entry.pos, @, str)],
                      li, entry, <<>>)
        ELSE IF li.encoding = OBJ_ENCODING_LISTPACK
        THEN IterDone([subject EXCEPT !.ptr.entries = lpReplace(@, entry.lpe, str)],
                      [li EXCEPT !.stale = (li.lpi # 0)], entry, <<>>)
        ELSE IterFatal(subject, li, entry, "Unknown list encoding")

\* Mutant of listTypeDelete: iterating towards the head, the cursor is not
\* moved to the new last element when the last one is deleted.
listTypeDelete_NoLast(li, entry, subject) ==
    IF li.encoding = OBJ_ENCODING_QUICKLIST
    THEN LET r == quicklistDelEntry(li.iter, entry.pos, subject.ptr)
         IN  IterDone([subject EXCEPT !.ptr = r.ql], [li EXCEPT !.iter = r.iter], entry, <<>>)
    ELSE LET lp == lpDelete(subject.ptr.entries, entry.lpe)
             p  == IF entry.lpe <= Len(lp) THEN entry.lpe ELSE 0
         IN  IterDone([subject EXCEPT !.ptr.entries = lp],
                      [li EXCEPT !.lpi = IF li.direction = LIST_TAIL THEN p
                                         ELSE IF p # 0 THEN lpPrev(lp, p)
                                         ELSE 0],
                      entry, <<>>)

\* listTypeDelete(iter, entry)
listTypeDelete(li, entry, subject) ==
    IF li.encoding = OBJ_ENCODING_QUICKLIST
    THEN LET r == quicklistDelEntry(li.iter, entry.pos, subject.ptr)
         IN  IterDone([subject EXCEPT !.ptr = r.ql], [li EXCEPT !.iter = r.iter], entry, <<>>)
    ELSE LET lp == lpDelete(subject.ptr.entries, entry.lpe)
             p  == IF entry.lpe <= Len(lp) THEN entry.lpe ELSE 0
         IN  IterDone([subject EXCEPT !.ptr.entries = lp],
                      [li EXCEPT !.lpi = IF li.direction = LIST_TAIL THEN p
                                         ELSE IF p # 0 THEN lpPrev(lp, p)
                                         ELSE lpLast(lp)],
                      entry, <<>>)

(***************************************************************************)
(* Set iterators.  A setTypeIterator is [encoding, di, ii, lpi]: di is the  *)
(* dict iterator (the order it walks the table in and how far it is), ii    *)
(* the intset index, lpi the listpack cursor.  What setTypeNext hands back  *)
(* is [more, encoding, strNull, str, llele]; more = FALSE is the return     *)
(* value -1.                                                                *)
(***************************************************************************)

\* setTypeNext returned -1.
SetEnd == [more |-> FALSE, encoding |-> "none", strNull |-> TRUE, str |-> <<>>, llele |-> 0]

\* setTypeNext returned the encoding and *str, *len.
SetStr(enc, s, ll) == [more |-> TRUE, encoding |-> enc, strNull |-> FALSE, str |-> s, llele |-> ll]

\* setTypeNext returned the encoding, *str = NULL and *llele.
SetInt(enc, ll) == [more |-> TRUE, encoding |-> enc, strNull |-> TRUE, str |-> <<>>, llele |-> ll]

\* setTypeInitIterator(subject); order is the order dictGetIterator will walk
\* the table in.
setTypeInitIterator(subject, order) ==
    [encoding |-> subject.encoding, di |-> [keys |-> order, index |-> 0], ii |-> 0, lpi |-> 0]

\* Mutant of setTypeNext: the listpack cursor and the intset index are not
\* stored back.
setTypeNext_Stuck(si, subject, ub) ==
    IF si.encoding # subject.encoding
    THEN [si |-> si, out |-> IF ub THEN SetInt(si.encoding, 0) ELSE SetEnd, panic |-> ""]
    ELSE IF si.encoding = OBJ_ENCODING_HT
    THEN IF si.di.index >= Len(si.di.keys) THEN [si |-> si, out |-> SetEnd, panic |-> ""]
         ELSE [si |-> [si EXCEPT !.di.index = @ + 1],
               out |-> SetStr(si.encoding, si.di.keys[si.di.index + 1], -123456789),
               panic |-> ""]
    ELSE IF si.encoding = OBJ_ENCODING_INTSET
    THEN IF si.ii + 1 > intsetLen(subject.ptr.ints)
         THEN [si |-> si, out |-> SetEnd, panic |-> ""]
         ELSE [si |-> si, out |-> SetInt(si.encoding, subject.ptr.ints[si.ii + 1]), panic |-> ""]
    ELSE LET lp  == subject.ptr.entries
             lpi == IF si.lpi = 0 THEN lpFirst(lp) ELSE lpNext(lp, si.lpi)
         IN  IF lpi = 0 THEN [si |-> si, out |-> SetEnd, panic |-> ""]
             ELSE [si |-> si,
                   out |-> IF lpIsInt(lp[lpi]) THEN SetInt(si.encoding, lp[lpi].int)
                           ELSE SetStr(si.encoding, lp[lpi].str, 0),
                   panic |-> ""]

\* setTypeNext(si, &str, &len, &llele): [si, out, panic].  It branches on the
\* encoding the iterator recorded and reads si->subject->ptr (or the dict
\* iterator) as a store of that encoding.  When the subject has been given a
\* store of another encoding since, that read is of memory of the wrong type
\* or of the freed table: it reports the end or yields a value that is
\* garbage (ub).
setTypeNext(si, subject, ub) ==
    IF si.encoding # subject.encoding /\ si.encoding \in
          {OBJ_ENCODING_HT, OBJ_ENCODING_INTSET, OBJ_ENCODING_LISTPACK}
    THEN [si  |-> IF si.encoding = OBJ_ENCODING_INTSET THEN [si EXCEPT !.ii = @ + 1] ELSE si,
          out |-> IF ub THEN SetInt(si.encoding, 0) ELSE SetEnd,
          panic |-> ""]
    ELSE IF si.encoding = OBJ_ENCODING_HT
    THEN IF si.di.index >= Len(si.di.keys) THEN [si |-> si, out |-> SetEnd, panic |-> ""]
         ELSE [si |-> [si EXCEPT !.di.index = @ + 1],
               out |-> SetStr(si.encoding, si.di.keys[si.di.index + 1], -123456789),
               panic |-> ""]
    ELSE IF si.encoding = OBJ_ENCODING_INTSET
    THEN IF si.ii + 1 > intsetLen(subject.ptr.ints)
         THEN [si |-> [si EXCEPT !.ii = @ + 1], out |-> SetEnd, panic |-> ""]
         ELSE [si |-> [si EXCEPT !.ii = @ + 1],
               out |-> SetInt(si.encoding, subject.ptr.ints[si.ii + 1]), panic |-> ""]
    ELSE IF si.encoding = OBJ_ENCODING_LISTPACK
    THEN LET lp  == subject.ptr.entries
             lpi == IF si.lpi = 0 THEN lpFirst(lp) ELSE lpNext(lp, si.lpi)
         IN  IF lpi = 0 THEN [si |-> si, out |-> SetEnd, panic |-> ""]
             ELSE [si |-> [si EXCEPT !.lpi = lpi],
                   out |-> IF lpIsInt(lp[lpi]) THEN SetInt(si.encoding, lp[lpi].int)
                           ELSE SetStr(si.encoding, lp[lpi].str, 0),
                   panic |-> ""]
    ELSE [si |-> si, out |-> SetEnd, panic |-> "Wrong set encoding in setTypeNext"]

RECURSIVE pushAll(_, _, _)
\* The push loop of pushGenericCommand over argv[2..argc-1].
pushAll(r, argv, where) ==
    IF Len(argv) = 0 \/ r.panic # "" THEN r
    ELSE LET p == listTypePush(r.list, Head(argv), where)
         IN  pushAll([p EXCEPT !.cb = r.cb], Tail(argv), where)

\* pushGenericCommand(c, where, xx) on an existing list: the growing check on
\* all the arguments, then the pushes; the reply is the new length.
pushGenericCommand(lobj, argv, where, fill) ==
    LET r == pushAll(listTypeTryConversionAppend(lobj, argv, fill), argv, where)
    IN  IF r.panic # "" THEN r ELSE [r EXCEPT !.ret = <<listTypeLength(r.list)>>]

(***************************************************************************)
(* The SET command of t_string.c.  An argument is [ptr, isll, ll]: its      *)
(* text, whether the text is a long long and its value then.  A reply is    *)
(* [kind, val].  The key is [type, val, expire], expire = -1 for none.      *)
(***************************************************************************)

\* The greatest and the least expire time (LLONG_MAX and LLONG_MIN).
TIME_MAX == 2^(TimeBits - 1) - 1

TIME_MIN == -(2^(TimeBits - 1))

\* The sum of two expire times as the machine addition leaves it.
WrapTime(x) == ((x - TIME_MIN) % 2^TimeBits) + TIME_MIN

UNIT_SECONDS == "UNIT_SECONDS"

UNIT_MILLISECONDS == "UNIT_MILLISECONDS"

COMMAND_GET == "COMMAND_GET"

COMMAND_SET == "COMMAND_SET"

OBJ_STRING == "string"

StrObj(text) == [ptr |-> text, isll |-> FALSE, ll |-> 0]

NumObj(n) == [ptr |-> "number", isll |-> TRUE, ll |-> n]

\* expire == NULL
NoExpire == [ptr |-> "NULL", isll |-> FALSE, ll |-> 0]

Reply(kind, val) == [kind |-> kind, val |-> val]

\* shared.ok, shared.null, shared.syntaxerr and the error replies
OkReply == Reply("ok", "")

NullReply == Reply("null", "")

SyntaxError == Reply("error", "syntax error")

NotIntegerError == Reply("error", "value is not an integer or out of range")

ExpireTimeError == Reply("error", "invalid expire time")

WrongTypeError == Reply("error", "WRONGTYPE")

\* The key when it does not exist.
NoKey == [type |-> "none", val |-> "", expire |-> -1]

\* getLongLongFromObjectOrReply(c, o, &value, NULL)
getLongLongFromObjectOrReply(o) ==
    IF o.isll THEN [ret |-> C_OK, value |-> o.ll, replies |-> <<>>]
    ELSE [ret |-> C_ERR, value |-> 0, replies |-> <<NotIntegerError>>]

\* Mutant of getExpireMillisecondsOrReply: the time is not tested again after
\* the current time is added.
getExpireMillisecondsOrReply_NoRecheck(expire, flags, unit, mstime) ==
    LET r  == getLongLongFromObjectOrReply(expire)
        ms == IF unit = UNIT_SECONDS THEN r.value * 1000 ELSE r.value
    IN  IF r.ret # C_OK THEN [ret |-> r.ret, milliseconds |-> 0, replies |-> r.replies]
        ELSE IF r.value <= 0 \/ (unit = UNIT_SECONDS /\ r.value > TIME_MAX \div 1000)
        THEN [ret |-> C_ERR, milliseconds |-> 0, replies |-> <<ExpireTimeError>>]
        ELSE [ret |-> C_OK,
              milliseconds |-> IF "OBJ_PX" \in flags \/ "OBJ_EX" \in flags
                               THEN WrapTime(ms + mstime) ELSE ms,
              replies |-> <<>>]

\* getExpireMillisecondsOrReply(c, expire, flags, unit, &milliseconds); mstime
\* is commandTimeSnapshot().
getExpireMillisecondsOrReply(expire, flags, unit, mstime) ==
    LET r   == getLongLongFromObjectOrReply(expire)
        ms  == IF unit = UNIT_SECONDS THEN r.value * 1000 ELSE r.value
        abs == IF "OBJ_PX" \in flags \/ "OBJ_EX" \in flags
               THEN WrapTime(ms + mstime) ELSE ms
    IN  IF r.ret # C_OK THEN [ret |-> r.ret, milliseconds |-> 0, replies |-> r.replies]
        ELSE IF r.value <= 0 \/ (unit = UNIT_SECONDS /\ r.value > TIME_MAX \div 1000)
        THEN [ret |-> C_ERR, milliseconds |-> 0, replies |-> <<ExpireTimeError>>]
        ELSE IF abs <= 0
        THEN [ret |-> C_ERR, milliseconds |-> 0, replies |-> <<ExpireTimeError>>]
        ELSE [ret |-> C_OK, milliseconds |-> abs, replies |-> <<>>]

\* What the option parser has gathered: flags, unit and expire.
Parsed(flags, unit, expire) == [flags |-> flags, unit |-> unit, expire |-> expire]

\* Whether none of the flags fs is set.
NoneOf(flags, fs) == flags \cap fs = {}

\* One round of the loop of parseExtendedStringArgumentsOrReply on the option
\* at j: what is gathered, how far j moves, and whether the option is taken.
\* The options of the model are in upper case; the code ignores the case.
parseOption(argv, j, p, command_type) ==
    LET opt   == argv[j].ptr
        next  == j < Len(argv)
        flags == p.flags
        isSet == command_type = COMMAND_SET
    IN  IF opt = "NX" /\ "OBJ_SET_XX" \notin flags /\ isSet
        THEN [ok |-> TRUE, p |-> [p EXCEPT !.flags = @ \cup {"OBJ_SET_NX"}], j |-> j + 1]
        ELSE IF opt = "XX" /\ "OBJ_SET_NX" \notin flags /\ isSet
        THEN [ok |-> TRUE, p |-> [p EXCEPT !.flags = @ \cup {"OBJ_SET_XX"}], j |-> j + 1]
        ELSE IF opt = "GET" /\ isSet
        THEN [ok |-> TRUE, p |-> [p EXCEPT !.flags = @ \cup {"OBJ_SET_GET"}], j |-> j + 1]
        ELSE IF /\ opt = "KEEPTTL"
                /\ NoneOf(flags, {"OBJ_PERSIST", "OBJ_EX", "OBJ_EXAT", "OBJ_PX", "OBJ_PXAT"})
                /\ isSet
        THEN [ok |-> TRUE, p |-> [p EXCEPT !.flags = @ \cup {"OBJ_KEEPTTL"}], j |-> j + 1]
        ELSE IF /\ opt = "PERSIST"
                /\ command_type = COMMAND_GET
                /\ NoneOf(flags, {"OBJ_EX", "OBJ_EXAT", "OBJ_PX", "OBJ_PXAT", "OBJ_KEEPTTL"})
        THEN [ok |-> TRUE, p |-> [p EXCEPT !.flags = @ \cup {"OBJ_PERSIST"}], j |-> j + 1]
        ELSE IF /\ opt = "EX"
                /\ NoneOf(flags, {"OBJ_KEEPTTL", "OBJ_PERSIST", "OBJ_EXAT", "OBJ_PX", "OBJ_PXAT"})
                /\ next
        THEN [ok |-> TRUE,
              p |-> [p EXCEPT !.flags = @ \cup {"OBJ_EX"}, !.expire = argv[j + 1]],
              j |-> j + 2]
        ELSE IF /\ opt = "PX"
                /\ NoneOf(flags, {"OBJ_KEEPTTL", "OBJ_PERSIST", "OBJ_EX", "OBJ_EXAT", "OBJ_PXAT"})
                /\ next
        THEN [ok |-> TRUE,
              p |-> [p EXCEPT !.flags = @ \cup {"OBJ_PX"}, !.unit = UNIT_MILLISECONDS,
                              !.expire = argv[j + 1]],
              j |-> j + 2]
        ELSE IF /\ opt = "EXAT"
                /\ NoneOf(flags, {"OBJ_KEEPTTL", "OBJ_PERSIST", "OBJ_EX", "OBJ_PX", "OBJ_PXAT"})
                /\ next
        THEN [ok |-> TRUE,
              p |-> [p EXCEPT !.flags = @ \cup {"OBJ_EXAT"}, !.expire = argv[j + 1]],
              j |-> j + 2]
        ELSE IF /\ opt = "PXAT"
                /\ NoneOf(flags, {"OBJ_KEEPTTL", "OBJ_PERSIST", "OBJ_EX", "OBJ_EXAT", "OBJ_PX"})
                /\ next
        THEN [ok |-> TRUE,
              p |-> [p EXCEPT !.flags = @ \cup {"OBJ_PXAT"}, !.unit = UNIT_MILLISECONDS,
                              !.expire = argv[j + 1]],
              j |-> j + 2]
        ELSE [ok |-> FALSE, p |-> p, j |-> j]

RECURSIVE parseFrom(_, _, _, _)
\* The loop of parseExtendedStringArgumentsOrReply from the option at j.
parseFrom(argv, j, p, command_type) ==
    IF j > Len(argv) THEN [ret |-> C_OK, p |-> p, replies |-> <<>>]
    ELSE LET r == parseOption(argv, j, p, command_type)
         IN  IF r.ok THEN parseFrom(argv, r.j, r.p, command_type)
             ELSE [ret |-> C_ERR, p |-> r.p, replies |-> <<SyntaxError>>]

\* parseExtendedStringArgumentsOrReply(c, &flags, &unit, &expire,
\* command_type); argv holds the arguments after the key and the value.
parseExtendedStringArgumentsOrReply(argv, flags, unit, expire, command_type) ==
    parseFrom(argv, 1, Parsed(flags, unit, expire), command_type)

\* Mutant of getGenericCommand: a key that does not exist gets no reply.
getGenericCommand_Silent(key) ==
    IF key.type = "none" THEN [ret |-> C_OK, replies |-> <<>>]
    ELSE IF key.type # OBJ_STRING THEN [ret |-> C_ERR, replies |-> <<WrongTypeError>>]
    ELSE [ret |-> C_OK, replies |-> <<Reply("bulk", key.val)>>]

\* getGenericCommand(c)
getGenericCommand(key) ==
    IF key.type = "none" THEN [ret |-> C_OK, replies |-> <<NullReply>>]
    ELSE IF key.type # OBJ_STRING THEN [ret |-> C_ERR, replies |-> <<WrongTypeError>>]
    ELSE [ret |-> C_OK, replies |-> <<Reply("bulk", key.val)>>]

\* What a command leaves: the key, server.dirty, the replies added, the
\* keyspace events notified and the command vector handed to propagation.
Left(key, dirty, replies, events, vector) ==
    [db |-> key, dirty |-> dirty, replies |-> replies, events |-> events, vector |-> vector]

\* Mutant of setGenericCommand: the NX and XX conditions are not tested.
setGenericCommand_Unconditional(key, dirty, mstime, flags, val, expire, unit) ==
    LET e     == IF expire # NoExpire
                 THEN getExpireMillisecondsOrReply(expire, flags, unit, mstime)
                 ELSE [ret |-> C_OK, milliseconds |-> 0, replies |-> <<>>]
        get   == "OBJ_SET_GET" \in flags
        g     == IF get THEN getGenericCommand(key) ELSE [ret |-> C_OK, replies |-> <<>>]
        found == key.type # "none"
        keep  == "OBJ_KEEPTTL" \in flags \/ expire # NoExpire
        set1  == [type |-> OBJ_STRING, val |-> val,
                  expire |-> IF expire # NoExpire THEN e.milliseconds
                             ELSE IF keep /\ found THEN key.expire ELSE -1]
    IN  IF e.ret # C_OK THEN Left(key, dirty, e.replies, <<>>, "argv")
        ELSE IF g.ret = C_ERR THEN Left(key, dirty, g.replies, <<>>, "argv")
        ELSE Left(set1, dirty + 1,
                  g.replies \o (IF get THEN <<>> ELSE <<OkReply>>),
                  <<"set">> \o (IF expire # NoExpire THEN <<"expire">> ELSE <<>>),
                  IF expire # NoExpire
                  THEN (IF "OBJ_PXAT" \in flags THEN "argv" ELSE "SET key val PXAT ms")
                  ELSE IF get THEN "argv without GET" ELSE "argv")

\* setGenericCommand(c, flags, key, val, expire, unit, NULL, NULL) on the key
\* as it is, with server.dirty and the command time.
setGenericCommand(key, dirty, mstime, flags, val, expire, unit) ==
    LET e     == IF expire # NoExpire
                 THEN getExpireMillisecondsOrReply(expire, flags, unit, mstime)
                 ELSE [ret |-> C_OK, milliseconds |-> 0, replies |-> <<>>]
        get   == "OBJ_SET_GET" \in flags
        g     == IF get THEN getGenericCommand(key) ELSE [ret |-> C_OK, replies |-> <<>>]
        found == key.type # "none"
        keep  == "OBJ_KEEPTTL" \in flags \/ expire # NoExpire
        set1  == [type |-> OBJ_STRING, val |-> val,
                  expire |-> IF expire # NoExpire THEN e.milliseconds
                             ELSE IF keep /\ found THEN key.expire ELSE -1]
    IN  IF e.ret # C_OK THEN Left(key, dirty, e.replies, <<>>, "argv")
        ELSE IF g.ret = C_ERR THEN Left(key, dirty, g.replies, <<>>, "argv")
        ELSE IF ("OBJ_SET_NX" \in flags /\ found) \/ ("OBJ_SET_XX" \in flags /\ ~found)
        THEN Left(key, dirty, g.replies \o (IF get THEN <<>> ELSE <<NullReply>>), <<>>, "argv")
        ELSE Left(set1, dirty + 1,
                  g.replies \o (IF get THEN <<>> ELSE <<OkReply>>),
                  <<"set">> \o (IF expire # NoExpire THEN <<"expire">> ELSE <<>>),
                  IF expire # NoExpire
                  THEN (IF "OBJ_PXAT" \in flags THEN "argv" ELSE "SET key val PXAT ms")
                  ELSE IF get THEN "argv without GET" ELSE "argv")

\* setCommand(c): what the parser gathered and what the command left.
setCommand(key, dirty, mstime, argv, val) ==
    LET r == parseExtendedStringArgumentsOrReply(argv, {}, UNIT_SECONDS, NoExpire, COMMAND_SET)
    IN  IF r.ret # C_OK
        THEN [parsed |-> FALSE, p |-> r.p, left |-> Left(key, dirty, r.replies, <<>>, "argv")]
        ELSE [parsed |-> TRUE, p |-> r.p,
              left |-> setGenericCommand(key, dirty, mstime, r.p.flags, val,
                                         r.p.expire, r.p.unit)]

(***************************************************************************)
(* The state.                                                              *)
(***************************************************************************)

VARIABLES
    set,        \* the set value: [encoding, ptr]
    setOp,      \* the last facade call on the set and its arguments
    setRet,     \* what that call returned
    setPanic,   \* "" or the assertion / serverPanic that aborted the process
    members,    \* the values added and not since removed (as bytes)
    netAdded,   \* Add calls that returned 1 minus Remove calls that returned 1
    list,       \* the list value: [encoding, ptr]
    list_max_listpack_size, \* server.list_max_listpack_size
    listOp,     \* the last call on the list and its arguments
    listRet,    \* what that call returned: <<>> for NULL or nothing
    listCb,     \* what the before-conversion callback saw, each time it ran
    listPanic,  \* "" or the assertion / serverPanic that aborted the process
    deque,      \* the elements an abstract double-ended queue would hold
    tryConvs,   \* conversions done by the listTypeTryConversion calls made
                \* since the list was last touched by another call
    lastConvLen,\* the length the list had when a command last converted it,
                \* -1 if no command has converted it yet
    heap,       \* the stores of the set objects setX and setY, by address
    setX,       \* a set object [encoding, addr]
    setY,       \* the object setTypeDup(setX) returned, NoObject before
    dupOp,      \* the last call on setX or setY
    dupPanic,   \* "" or the assertion / serverPanic that aborted the process
    iterX,      \* what a full iteration of setX yielded when it was duplicated
    iterY,      \* what a full iteration of setY yielded then
    dupSteps,   \* calls made on setX and setY since the duplication
    li,         \* the listTypeIterator on list, NoIterator when there is none
    entry,      \* the listTypeEntry the last listTypeNext filled
    trav,       \* what an observer of the list iteration keeps track of
    si,         \* the setTypeIterator on set, NoIterator when there is none
    seen,       \* what an observer of the set iteration keeps track of
    db,         \* the key of the string commands: [type, val, expire]
    client,     \* the command the client last sent and what it was answered
    server      \* server.dirty and the time of the command clock

setVars == <<set, setOp, setRet, setPanic, members, netAdded>>

listVars ==
    <<list, list_max_listpack_size, listOp, listRet, listCb, listPanic, deque,
      tryConvs, lastConvLen>>

dupVars == <<heap, setX, setY, dupOp, dupPanic, iterX, iterY, dupSteps>>

iterVars == <<li, entry, trav, si, seen>>

strVars == <<db, client, server>>

vars == <<set, setOp, setRet, setPanic, members, netAdded,
          list, list_max_listpack_size, listOp, listRet, listCb, listPanic, deque,
          tryConvs, lastConvLen,
          heap, setX, setY, dupOp, dupPanic, iterX, iterY, dupSteps,
          li, entry, trav, si, seen,
          db, client, server>>

\* The observer of a list iteration: where it started, the positions it has
\* still to yield (in the list as it is now), the values yielded so far, the
\* kinds of calls other than listTypeNext made since it started, and the
\* position of the element such a call inserted (0 if none).
NoTraversal == [index |-> 0, direction |-> "none", todo |-> <<>>, yielded |-> <<>>,
                calls |-> {}, inserted |-> 0]

\* The observer of a set iteration: the members of the set when it started,
\* the values setTypeNext has yielded, whether it has returned -1, whether the
\* set has been changed since, and what setTypeNext handed back last.
NoSetTraversal == [from |-> {}, yielded |-> <<>>, ended |-> FALSE, changed |-> FALSE,
                   out |-> SetEnd]

\* No iterator is open.
IterIdle ==
    /\ li = NoIterator
    /\ entry = NoEntry
    /\ trav = NoTraversal
    /\ si = NoIterator
    /\ seen = NoSetTraversal

\* No string command has been sent.
StrIdle ==
    /\ db = [type |-> "none", val |-> "", expire |-> -1]
    /\ client = [name |-> "none"]
    /\ server = [dirty |-> 0, mstime |-> 0]

\* The two set objects while they are not exercised.
DupIdle ==
    /\ heap = [a \in 1..MaxAddr |-> FreeCell]
    /\ setX = NoObject
    /\ setY = NoObject
    /\ dupOp = [name |-> "none"]
    /\ dupPanic = ""
    /\ iterX = <<>>
    /\ iterY = <<>>
    /\ dupSteps = 0

\* The list variables while only the set is exercised.
ListIdle ==
    /\ list = createListListpackObject
    /\ list_max_listpack_size = 0
    /\ listOp = [name |-> "none"]
    /\ listRet = <<>>
    /\ listCb = <<>>
    /\ listPanic = ""
    /\ deque = <<>>
    /\ tryConvs = 0
    /\ lastConvLen = -1

\* The set variables while only the list is exercised.
SetIdle ==
    /\ set = createIntsetObject
    /\ setOp = [name |-> "none"]
    /\ setRet = 0
    /\ setPanic = ""
    /\ members = {}
    /\ netAdded = 0

\* The byte strings the set calls are made with: canonical integers, a digit
\* string that is not canonical, and a string that is no number.
SetValues == { <<"1">>, <<"2">>, <<"0", "1">>, <<"a">> }

\* The integers passed with str == NULL.
SetInts == {1, 13}

SetArgs == {SdsArg(v) : v \in SetValues} \cup {LLArg(n) : n \in SetInts}

SetEncodings == {OBJ_ENCODING_INTSET, OBJ_ENCODING_LISTPACK, OBJ_ENCODING_HT}

\* The members of the set as the store holds them, each as its bytes.
SetMembers(s) ==
    IF s.encoding = OBJ_ENCODING_HT THEN s.ptr.keys
    ELSE IF s.encoding = OBJ_ENCODING_INTSET THEN {ll2string(v) : v \in Range(s.ptr.ints)}
    ELSE {lpGet(e) : e \in Range(s.ptr.entries)}

\* The iteration orders a hash table may be walked in.
HtOrders(s) == IF s.encoding = OBJ_ENCODING_HT THEN Orderings(s.ptr.keys) ELSE {<<>>}

\* The calls of setTypeConvertAndExpand that differ in what they do: the
\* presizing can fail only for a hash table target with panic = 0, and the
\* iteration order matters only for a listpack target.
ConvertCalls(s) ==
    {[enc |-> OBJ_ENCODING_HT, panic |-> c[1], expandOk |-> c[2], htorder |-> <<>>] :
        c \in {<<TRUE, TRUE>>, <<FALSE, TRUE>>, <<FALSE, FALSE>>}}
    \cup {[enc |-> OBJ_ENCODING_LISTPACK, panic |-> p, expandOk |-> TRUE, htorder |-> o] :
        p \in BOOLEAN, o \in HtOrders(s)}
    \cup {[enc |-> OBJ_ENCODING_INTSET, panic |-> p, expandOk |-> TRUE, htorder |-> <<>>] :
        p \in BOOLEAN}

\* The value an argument denotes: its bytes, or the decimal text of the
\* integer.
ValueBytes(arg) == IF "ll" \in DOMAIN arg THEN ll2string(arg.ll) ELSE arg.str

SetInit ==
    \E value \in SetValues, size_hint \in 0..MaxSizeHint :
        /\ set = setTypeCreate(value, size_hint)
        /\ setOp = [name |-> "setTypeCreate", value |-> value, size_hint |-> size_hint]
        /\ setRet = 0
        /\ setPanic = ""
        /\ members = {}
        /\ netAdded = 0
        /\ ListIdle
        /\ DupIdle
        /\ IterIdle
        /\ StrIdle

\* The state after a facade call whose outcome is r.
SetOutcome(r, op) ==
    /\ set' = r.set
    /\ setRet' = r.ret
    /\ setPanic' = r.panic
    /\ setOp' = op
    /\ UNCHANGED listVars
    /\ UNCHANGED iterVars
    /\ UNCHANGED strVars
    /\ UNCHANGED dupVars

\* setTypeAdd(set, value) / setTypeAddAux(set, NULL, 0, llval, 0)
SetAdd ==
    \E arg \in SetArgs :
        LET r == IF ArgIsLL(arg) THEN setTypeAddAux(set, arg) ELSE setTypeAdd(set, arg.str)
        IN  /\ setPanic = ""
            /\ SetOutcome(r, [name |-> "setTypeAdd", arg |-> arg, from |-> set.encoding])
            /\ members' = members \cup {ValueBytes(arg)}
            /\ netAdded' = IF r.panic = "" /\ r.ret = 1 THEN netAdded + 1 ELSE netAdded

\* setTypeRemove(set, value) / setTypeRemoveAux(set, NULL, 0, llval, 0)
SetRemove ==
    \E arg \in SetArgs :
        LET r == IF ArgIsLL(arg) THEN setTypeRemoveAux(set, arg) ELSE setTypeRemove(set, arg.str)
        IN  /\ setPanic = ""
            /\ SetOutcome(r, [name |-> "setTypeRemove", arg |-> arg])
            /\ members' = members \ {ValueBytes(arg)}
            /\ netAdded' = IF r.panic = "" /\ r.ret = 1 THEN netAdded - 1 ELSE netAdded

\* setTypeIsMember(set, value) / setTypeIsMemberAux(set, NULL, 0, llval, 0)
SetIsMember ==
    \E arg \in SetArgs :
        LET r == IF ArgIsLL(arg) THEN setTypeIsMemberAux(set, arg)
                 ELSE setTypeIsMember(set, arg.str)
        IN  /\ setPanic = ""
            /\ SetOutcome(r, [name |-> "setTypeIsMember", arg |-> arg])
            /\ UNCHANGED <<members, netAdded>>

\* setTypeConvertAndExpand(set, enc, cap, panic), called by the command layer.
SetConvert ==
    \E c \in ConvertCalls(set) :
        LET r == setTypeConvertAndExpand(set, c.enc, setTypeSize(set), c.panic,
                                         c.expandOk, c.htorder)
        IN  /\ setPanic = ""
            /\ SetOutcome(r, [name |-> "setTypeConvertAndExpand", enc |-> c.enc,
                              panic |-> c.panic, expandOk |-> c.expandOk,
                              from |-> set.encoding])
            /\ UNCHANGED <<members, netAdded>>

SetNext ==
    \/ SetAdd
    \/ SetRemove
    \/ SetIsMember
    \/ SetConvert

SetSpec == SetInit /\ [][SetNext]_vars

\* setTypeDup(set), the caller going on with the duplicate.
SetDup ==
    \E ho \in HtOrders(set) :
        /\ setPanic = ""
        /\ SetOutcome(setTypeDupValue(set, ho), [name |-> "setTypeDup", from |-> set.encoding])
        /\ UNCHANGED <<members, netAdded>>

\* The calls that build a set: Add, Remove and Dup after setTypeCreate.
SetBuildNext ==
    \/ SetAdd
    \/ SetRemove
    \/ SetDup

SetBuildSpec == SetInit /\ [][SetBuildNext]_vars

(***************************************************************************)
(* A set iterated: the set is built by facade calls, an iterator is opened *)
(* on it, and setTypeNext is interleaved with conversions of the set.      *)
(***************************************************************************)

\* The bytes of the value setTypeNext handed back.
ElementBytes(out) == IF out.strNull THEN ll2string(out.llele) ELSE out.str

\* The state after a call made while the set iterator is open.
SetIterOutcome(s, i, ret, panic, op, t) ==
    /\ set' = s
    /\ si' = i
    /\ setRet' = ret
    /\ setPanic' = panic
    /\ setOp' = op
    /\ seen' = t
    /\ UNCHANGED <<members, netAdded, li, entry, trav>>
    /\ UNCHANGED strVars
    /\ UNCHANGED listVars
    /\ UNCHANGED dupVars

\* The values the iterated set is built from: a string that is a canonical
\* integer, a string that is no number, and an integer.
SetIterArgs == {SdsArg(<<"2">>), SdsArg(<<"a">>), LLArg(13)}

\* setTypeAdd(set, value) / setTypeAddAux(set, NULL, 0, llval, 0) before the
\* iterator is opened.
SiAdd ==
    \E arg \in SetIterArgs :
        LET r == IF ArgIsLL(arg) THEN setTypeAddAux(set, arg) ELSE setTypeAdd(set, arg.str)
        IN  /\ si = NoIterator
            /\ setPanic = ""
            /\ SetOutcome(r, [name |-> "setTypeAdd"])
            /\ members' = members \cup {ValueBytes(arg)}
            /\ netAdded' = IF r.panic = "" /\ r.ret = 1 THEN netAdded + 1 ELSE netAdded

\* A conversion before the iterator is opened.
SiPrepare ==
    /\ si = NoIterator
    /\ SetConvert

\* setTypeInitIterator(set)
SiInit ==
    \E order \in HtOrders(set) :
        /\ si = NoIterator
        /\ setPanic = ""
        /\ SetIterOutcome(set, setTypeInitIterator(set, order), 0, "",
                          [name |-> "setTypeInitIterator"],
                          [NoSetTraversal EXCEPT !.from = SetMembers(set)])

\* setTypeNext(si, &str, &len, &llele); at most one call more than the set has
\* members, and one more again.
SiNext ==
    \E ub \in BOOLEAN :
        LET r == setTypeNext(si, set, ub)
        IN  /\ si # NoIterator
            /\ setPanic = ""
            /\ ub => si.encoding # set.encoding
            /\ si.ii <= setTypeSize(set) + 1
            /\ Len(seen.yielded) <= setTypeSize(set)
            /\ SetIterOutcome(set, r.si, setRet, r.panic, [name |-> "setTypeNext"],
                              [seen EXCEPT
                                  !.out = r.out,
                                  !.ended = @ \/ ~r.out.more,
                                  !.yielded = IF r.out.more THEN Append(@, ElementBytes(r.out))
                                              ELSE @])

\* A setTypeConvertAndExpand(set, enc, cap, panic) that converts the set
\* while the iterator is open; one such call per iteration.
SiConvert ==
    \E c \in ConvertCalls(set) :
        LET r == setTypeConvertAndExpand(set, c.enc, setTypeSize(set), c.panic,
                                         c.expandOk, c.htorder)
        IN  /\ si # NoIterator
            /\ setPanic = ""
            /\ ~seen.changed
            /\ r.panic = ""
            /\ r.set.encoding # set.encoding
            /\ SetIterOutcome(r.set, si, 0, r.panic, [name |-> "setTypeConvertAndExpand"],
                              [seen EXCEPT !.changed = TRUE])

SetIterNext ==
    \/ SiAdd
    \/ SiPrepare
    \/ SiInit
    \/ SiNext
    \/ SiConvert

SetIterSpec == SetInit /\ [][SetIterNext]_vars

-----------------------------------------------------------------------------
\* A set object and its duplicate, both by reference.

DupTargets == {"X", "Y"}

\* The arguments of the calls made on the two objects: an integer as a string,
\* a string that is no number, and an integer passed with str == NULL.
DupArgs == {SdsArg(<<"1">>), SdsArg(<<"a">>), LLArg(13)}

DupInit ==
    \E value \in SetValues, size_hint \in 0..MaxSizeHint :
        LET o == setTypeCreate(value, size_hint)
        IN  /\ heap = [a \in 1..MaxAddr |-> IF a = 1 THEN o.ptr ELSE FreeCell]
            /\ setX = [encoding |-> o.encoding, addr |-> 1]
            /\ setY = NoObject
            /\ dupOp = [name |-> "setTypeCreate", value |-> value, size_hint |-> size_hint]
            /\ dupPanic = ""
            /\ iterX = <<>>
            /\ iterY = <<>>
            /\ dupSteps = 0
            /\ SetIdle
            /\ ListIdle
            /\ IterIdle
            /\ StrIdle

\* The state after a call on the object t ("X" or "Y") whose outcome is r.
DupOutcome(t, r, op) ==
    LET c == Commit(IF t = "X" THEN setX ELSE setY, heap, r)
    IN  /\ heap' = c.heap
        /\ setX' = IF t = "X" THEN c.obj ELSE setX
        /\ setY' = IF t = "Y" THEN c.obj ELSE setY
        /\ dupPanic' = r.panic
        /\ dupOp' = op
        /\ dupSteps' = IF setY = NoObject THEN 0 ELSE dupSteps + 1
        /\ UNCHANGED <<iterX, iterY>>
        /\ UNCHANGED setVars
        /\ UNCHANGED listVars
        /\ UNCHANGED iterVars
        /\ UNCHANGED strVars

\* Whether a call can be made on the object t.
DupCallable(t) ==
    /\ dupPanic = ""
    /\ dupSteps < MaxDupOps
    /\ (IF t = "X" THEN setX ELSE setY) # NoObject

DupAdd ==
    \E t \in DupTargets, arg \in DupArgs :
        LET v == Deref(IF t = "X" THEN setX ELSE setY, heap)
        IN  /\ DupCallable(t)
            /\ DupOutcome(t, IF ArgIsLL(arg) THEN setTypeAddAux(v, arg) ELSE setTypeAdd(v, arg.str),
                          [name |-> "setTypeAdd", target |-> t, arg |-> arg])

DupRemove ==
    \E t \in DupTargets, arg \in DupArgs :
        LET v == Deref(IF t = "X" THEN setX ELSE setY, heap)
        IN  /\ DupCallable(t)
            /\ DupOutcome(t, IF ArgIsLL(arg) THEN setTypeRemoveAux(v, arg)
                             ELSE setTypeRemove(v, arg.str),
                          [name |-> "setTypeRemove", target |-> t, arg |-> arg])

DupConvert ==
    \E t \in DupTargets :
        LET v == Deref(IF t = "X" THEN setX ELSE setY, heap)
        IN  /\ DupCallable(t)
            /\ \E c \in ConvertCalls(v) :
                 DupOutcome(t, setTypeConvertAndExpand(v, c.enc, setTypeSize(v), c.panic,
                                                       c.expandOk, c.htorder),
                            [name |-> "setTypeConvertAndExpand", target |-> t, enc |-> c.enc])

\* Y = setTypeDup(X); each of the two objects is then iterated in full, a hash
\* table in the order its dict yields its keys.
DupDup ==
    /\ dupPanic = ""
    /\ setX # NoObject
    /\ setY = NoObject
    /\ \E ox \in HtOrders(Deref(setX, heap)) :
         LET d == setTypeDup(setX, heap, ox)
         IN  /\ heap' = d.heap
             /\ setY' = d.obj
             /\ dupPanic' = d.panic
             /\ dupOp' = [name |-> "setTypeDup", target |-> "X"]
             /\ iterX' = setTypeElements(Deref(setX, heap), ox)
             /\ \E oy \in HtOrders(Deref(d.obj, d.heap)) :
                  iterY' = setTypeElements(Deref(d.obj, d.heap), oy)
             /\ UNCHANGED <<setX, dupSteps>>
             /\ UNCHANGED setVars
             /\ UNCHANGED listVars
             /\ UNCHANGED iterVars
             /\ UNCHANGED strVars

DupNext ==
    \/ DupAdd
    \/ DupRemove
    \/ DupConvert
    \/ DupDup

DupSpec == DupInit /\ [][DupNext]_vars

(***************************************************************************)
(* The List facade called operation by operation.                          *)
(***************************************************************************)

\* The objects pushed: a short string, an integer encoded object, and a
\* string that is the canonical text of an integer and long enough for a
\* plain node.
ListObjects == { RawObject(<<"a">>), IntObject(7), RawObject(<<"1", "2", "3">>) }

\* The argument vectors of the growing check and of the push command.
ListArgvs == {<<o>> : o \in ListObjects} \cup { <<RawObject(<<"a">>), IntObject(7)>> }

\* The values of server.list_max_listpack_size: a byte limit (-1) or an
\* entry-count limit.
ListFills == {-1} \cup (0..MaxFill)

ListWheres == {LIST_HEAD, LIST_TAIL}

ListTriggers == {LIST_CONV_AUTO, LIST_CONV_GROWING, LIST_CONV_SHRINKING}

\* The bytes a pushed object is stored as.
ObjectBytes(o) == IF o.encoding = OBJ_ENCODING_INT THEN ll2string(o.long) ELSE o.sds

\* The elements of the list, head to tail, each as its bytes.
ListContents(l) ==
    LET entries == IF l.encoding = OBJ_ENCODING_QUICKLIST THEN Flatten(l.ptr.nodes)
                   ELSE l.ptr.entries
    IN  [i \in 1..Len(entries) |-> lpGet(entries[i])]

RECURSIVE DequePushAll(_, _, _)
\* The abstract queue after pushing the objects one by one at one end.
DequePushAll(q, argv, where) ==
    IF Len(argv) = 0 THEN q
    ELSE DequePushAll(IF where = LIST_HEAD THEN <<ObjectBytes(Head(argv))>> \o q
                      ELSE Append(q, ObjectBytes(Head(argv))),
                      Tail(argv), where)

\* The abstract queue after a pop at one end.
DequePop(q, where) ==
    IF Len(q) = 0 THEN q
    ELSE IF where = LIST_HEAD THEN Tail(q) ELSE SubSeq(q, 1, Len(q) - 1)

ListInit ==
    /\ list = createListListpackObject
    /\ list_max_listpack_size \in ListFills
    /\ listOp = [name |-> "createListListpackObject"]
    /\ listRet = <<>>
    /\ listCb = <<>>
    /\ listPanic = ""
    /\ deque = <<>>
    /\ tryConvs = 0
    /\ lastConvLen = -1
    /\ SetIdle
    /\ DupIdle
    /\ IterIdle
    /\ StrIdle

\* The state after a list call whose outcome is r.
ListOutcome(r, op) ==
    /\ list' = r.list
    /\ listRet' = r.ret
    /\ listCb' = r.cb
    /\ listPanic' = r.panic
    /\ listOp' = op
    /\ UNCHANGED list_max_listpack_size
    /\ UNCHANGED setVars
    /\ UNCHANGED dupVars
    /\ UNCHANGED iterVars
    /\ UNCHANGED strVars

\* Whether the outcome r of a call on list l has another encoding than l.
Converted(l, r) == r.panic = "" /\ r.list.encoding # l.encoding

\* listTypePush(list, value, where)
ListPush ==
    \E value \in ListObjects, where \in ListWheres :
        /\ listPanic = ""
        /\ listTypeLength(list) < MaxListLen
        /\ ListOutcome(listTypePush(list, value, where),
                       [name |-> "listTypePush", value |-> value, where |-> where,
                        call |-> listTypePushCall(list, value, where)])
        /\ deque' = DequePushAll(deque, <<value>>, where)
        /\ tryConvs' = 0
        /\ UNCHANGED lastConvLen

\* listTypePop(list, where)
ListPop ==
    \E where \in ListWheres :
        /\ listPanic = ""
        /\ ListOutcome(listTypePop(list, where), [name |-> "listTypePop", where |-> where])
        /\ deque' = DequePop(deque, where)
        /\ tryConvs' = 0
        /\ UNCHANGED lastConvLen

\* listTypeTryConversion(list, lct, fn, data)
ListTryConversion ==
    \E lct \in ListTriggers :
        LET r == listTypeTryConversion(list, lct, list_max_listpack_size)
        IN  /\ listPanic = ""
            /\ ListOutcome(r, [name |-> "listTypeTryConversion", lct |-> lct])
            /\ tryConvs' = IF Converted(list, r) THEN tryConvs + 1 ELSE tryConvs
            /\ UNCHANGED lastConvLen
            /\ UNCHANGED deque

\* listTypeTryConversionAppend(list, argv, start, end, fn, data)
ListTryConversionAppend ==
    \E argv \in ListArgvs :
        LET r == listTypeTryConversionAppend(list, argv, list_max_listpack_size)
        IN  /\ listPanic = ""
            /\ ListOutcome(r, [name |-> "listTypeTryConversionAppend", argv |-> argv])
            /\ tryConvs' = 0
            /\ UNCHANGED lastConvLen
            /\ UNCHANGED deque

\* pushGenericCommand(c, where, xx) on the list
ListPushCommand ==
    \E argv \in ListArgvs, where \in ListWheres :
        LET r == pushGenericCommand(list, argv, where, list_max_listpack_size)
        IN  /\ listPanic = ""
            /\ listTypeLength(list) + Len(argv) <= MaxListLen
            /\ ListOutcome(r, [name |-> "pushGenericCommand", argv |-> argv, where |-> where])
            /\ deque' = DequePushAll(deque, argv, where)
            /\ tryConvs' = 0
            /\ UNCHANGED lastConvLen

ListNext ==
    \/ ListPush
    \/ ListPop
    \/ ListTryConversion
    \/ ListTryConversionAppend
    \/ ListPushCommand

ListSpec == ListInit /\ [][ListNext]_vars

-----------------------------------------------------------------------------
\* The list changed one element at a time by commands: a push command, which
\* runs the growing check before its push, and a pop followed by the explicit
\* shrinking check.

\* A pop at one end, then listTypeTryConversion with the shrinking trigger on
\* what is left; the value is that of the pop.
popThenShrink(lobj, where, fill) ==
    LET p == listTypePop(lobj, where)
    IN  IF p.panic # "" THEN p
        ELSE LET c == listTypeTryConversion(p.list, LIST_CONV_SHRINKING, fill)
             IN  IF c.panic # "" THEN c ELSE ListDone(c.list, p.ret, c.cb)

ListCmdPush ==
    \E value \in ListObjects, where \in ListWheres :
        LET r == pushGenericCommand(list, <<value>>, where, list_max_listpack_size)
        IN  /\ listPanic = ""
            /\ listTypeLength(list) < MaxListLen
            /\ ListOutcome(r, [name |-> "pushGenericCommand", argv |-> <<value>>, where |-> where])
            /\ deque' = DequePushAll(deque, <<value>>, where)
            /\ tryConvs' = 0
            /\ lastConvLen' = IF Converted(list, r) THEN listTypeLength(list) ELSE lastConvLen

ListCmdPop ==
    \E where \in ListWheres :
        LET r == popThenShrink(list, where, list_max_listpack_size)
        IN  /\ listPanic = ""
            /\ ListOutcome(r, [name |-> "popThenShrink", where |-> where])
            /\ deque' = DequePop(deque, where)
            /\ tryConvs' = 0
            /\ lastConvLen' = IF Converted(list, r) THEN listTypeLength(r.list) ELSE lastConvLen

ListCmdNext ==
    \/ ListCmdPush
    \/ ListCmdPop

ListCmdSpec == ListInit /\ [][ListCmdNext]_vars

\* The list of the push scenario: created empty and only ever pushed to, one
\* element per push command.
ListFillSpec == ListInit /\ [][ListCmdPush]_vars

(***************************************************************************)
(* The two facades together: a value is a Set or a List, and every call of *)
(* its facade can be made on it.                                           *)
(***************************************************************************)

FacadeInit == SetInit \/ ListInit

FacadeNext ==
    \/ listOp.name = "none" /\ SetNext
    \/ setOp.name = "none" /\ ListNext

FacadeSpec == FacadeInit /\ [][FacadeNext]_vars

(***************************************************************************)
(* The calls a command makes with valid values: on a set Add, Remove and   *)
(* IsMember (conversions happen only inside Add), on a list every call of  *)
(* the List facade.                                                         *)
(***************************************************************************)

ClientNext ==
    \/ listOp.name = "none" /\ SetAdd
    \/ listOp.name = "none" /\ SetRemove
    \/ listOp.name = "none" /\ SetIsMember
    \/ setOp.name = "none" /\ ListNext

ClientSpec == FacadeInit /\ [][ClientNext]_vars

(***************************************************************************)
(* A list whose conversion checks note what they follow: whether the call   *)
(* before was a growing check for elements about to be pushed and whether   *)
(* that check converted the list.                                           *)
(***************************************************************************)

\* listTypeTryConversion(list, lct, fn, data), possibly right after
\* listTypeTryConversionAppend and before the push it prepared.
ListCheckAfter ==
    \E lct \in ListTriggers :
        LET r == listTypeTryConversion(list, lct, list_max_listpack_size)
        IN  /\ listPanic = ""
            /\ ListOutcome(r, [name |-> "listTypeTryConversion", lct |-> lct,
                               promoted |-> /\ listOp.name = "listTypeTryConversionAppend"
                                            /\ listCb # <<>>,
                               before |-> IF listOp.name = "listTypeTryConversionAppend"
                                          THEN listCb ELSE <<>>])
            /\ tryConvs' = IF Converted(list, r) THEN tryConvs + 1 ELSE tryConvs
            /\ UNCHANGED lastConvLen
            /\ UNCHANGED deque

ListCheckNext ==
    \/ ListPush
    \/ ListPop
    \/ ListTryConversionAppend
    \/ ListCheckAfter

ListCheckSpec == ListInit /\ [][ListCheckNext]_vars

(***************************************************************************)
(* SET commands on one key.  The key is absent at first or holds a list     *)
(* that a push command made; the command clock stands at one time.          *)
(***************************************************************************)

\* The options of a command.
StrOptions ==
    {StrObj(t) : t \in {"NX", "XX", "GET", "KEEPTTL", "PERSIST", "EX", "PX", "EXAT", "PXAT",
                        "BOGUS"}}

\* The options that may go with an expire.
StrConditions == {StrObj(t) : t \in {"NX", "XX", "GET", "KEEPTTL"}}

\* The options that take an expire.
StrExpireKinds == {StrObj(t) : t \in {"EX", "PX", "EXAT", "PXAT"}}

\* The expire arguments: not positive, small, the greatest number of seconds
\* that can be turned into milliseconds, the least that cannot, the greatest
\* time, and a text that is no number.
StrExpires ==
    {NumObj(n) : n \in {-1, 0, 1, TIME_MAX \div 1000, TIME_MAX \div 1000 + 1, TIME_MAX}}
    \cup {StrObj("abc")}

\* The arguments after the key and the value: none, one option, two
\* conditions, an expire of every kind and value, a condition before an expire
\* that is accepted or rejected, KEEPTTL after an expire, two expires, and GET
\* before two conditions.
StrArgvs ==
    {<<>>}
    \cup {<<a>> : a \in StrOptions \cup {NumObj(1)}}
    \cup {<<a, b>> : a \in StrConditions, b \in StrConditions}
    \cup {<<x, v>> : x \in StrExpireKinds, v \in StrExpires}
    \cup {<<o, x, v>> : o \in StrConditions, x \in StrExpireKinds, v \in {NumObj(0), NumObj(1)}}
    \cup {<<x, NumObj(1), StrObj("KEEPTTL")>> : x \in StrExpireKinds}
    \cup {<<x, NumObj(1), y, NumObj(1)>> : x \in StrExpireKinds,
                                           y \in {StrObj("EX"), StrObj("PXAT")}}
    \cup {<<StrObj("GET"), a, b>> : a \in {StrObj("NX"), StrObj("XX")},
                                   b \in {StrObj("NX"), StrObj("XX")}}

\* The values stored.
StrValues == {"a", "b"}

\* The times of the command clock: one that the greatest relative expire can
\* be added to and one that takes the sum over the greatest time.
StrTimes == {1, TIME_MAX - (TIME_MAX \div 1000) * 1000 + 1}

StrInit ==
    /\ db \in {NoKey, [type |-> "list", val |-> "", expire |-> -1]}
    /\ client = [name |-> "none"]
    /\ server \in {[dirty |-> 0, mstime |-> t] : t \in StrTimes}
    /\ SetIdle
    /\ ListIdle
    /\ DupIdle
    /\ IterIdle

\* setCommand(c)
StrSet ==
    \E argv \in StrArgvs, val \in StrValues :
        LET r == setCommand(db, server.dirty, server.mstime, argv, val)
        IN  /\ server.dirty < MaxDirty
            /\ db' = r.left.db
            /\ server' = [server EXCEPT !.dirty = r.left.dirty]
            /\ client' = [name |-> "setCommand", parsed |-> r.parsed, flags |-> r.p.flags,
                          unit |-> r.p.unit, expire |-> r.p.expire, val |-> val,
                          replies |-> r.left.replies, events |-> r.left.events,
                          vector |-> r.left.vector]
            /\ UNCHANGED setVars
            /\ UNCHANGED listVars
            /\ UNCHANGED dupVars
            /\ UNCHANGED iterVars

StrNext == StrSet

StrSpec == StrInit /\ [][StrNext]_vars

(***************************************************************************)
(* A list written at its ends and in the middle: pushes, and callers that   *)
(* open an iterator at an index, take the entry there, insert next to it or *)
(* replace it, and release the iterator.  The conversion checks give both   *)
(* encodings.                                                               *)
(***************************************************************************)

\* The longest list written.
MaxWriteLen == 3

\* The indexes written at: the first element, the second and the last.
WriteIndexes == {0, 1, -1}

\* The values inserted and the values put in place of an element.
WriteObjects == {RawObject(<<"b">>), IntObject(5)}

\* The iterator and the entry of a caller that seeks the element at index.
SeekEntry(subject, index) ==
    listTypeNext(listTypeInitIterator(subject, index, LIST_TAIL), subject, 0)

\* listTypeInitIterator, listTypeNext, listTypeInsert(entry, value, where)
ListInsertAt ==
    \E index \in WriteIndexes, value \in WriteObjects, where \in ListWheres :
        LET at == SeekEntry(list, index)
            r  == listTypeInsert(at.li, at.entry, value, where, list)
            p  == listTypeEntryPos(at.li, at.entry)
        IN  /\ listPanic = ""
            /\ listTypeLength(list) < MaxWriteLen
            /\ at.ret = <<1>>
            /\ ListOutcome(ListDone(r.list, <<>>, <<>>),
                           [name |-> "listTypeInsert", value |-> value, where |-> where,
                            call |-> listTypeInsertCall(at.li, value, where)])
            /\ deque' = InsertAt(deque, IF where = LIST_TAIL THEN p + 1 ELSE p,
                                 ObjectBytes(value))
            /\ tryConvs' = 0
            /\ UNCHANGED lastConvLen

\* listTypeInitIterator, listTypeNext, listTypeReplace(entry, value)
ListReplaceAt ==
    \E index \in WriteIndexes, value \in WriteObjects :
        LET at == SeekEntry(list, index)
            r  == listTypeReplace(at.li, at.entry, value, list)
            p  == listTypeEntryPos(at.li, at.entry)
        IN  /\ listPanic = ""
            /\ at.ret = <<1>>
            /\ ListOutcome([list |-> r.list, ret |-> <<>>, cb |-> <<>>, panic |-> r.panic],
                           [name |-> "listTypeReplace", value |-> value, where |-> LIST_TAIL,
                            call |-> listTypeReplaceCall(at.li, value)])
            /\ deque' = [deque EXCEPT ![p] = ObjectBytes(value)]
            /\ tryConvs' = 0
            /\ UNCHANGED lastConvLen

ListWriteNext ==
    \/ listTypeLength(list) < MaxWriteLen /\ ListPush
    \/ ListInsertAt
    \/ ListReplaceAt
    \/ ListTryConversion

ListWriteSpec == ListInit /\ [][ListWriteNext]_vars

(***************************************************************************)
(* A list iterated: the list is filled by push commands, an iterator is    *)
(* opened on it, and listTypeNext is interleaved with the calls that take  *)
(* the entry it yielded.                                                    *)
(***************************************************************************)

\* The longest list an iterator is opened on.
MaxIterLen == 3

\* The indexes an iterator is opened at: the first element, the second and
\* the last.
IterIndexes == {0, 1, -1}

\* The values of server.list_max_listpack_size the iterated list is built
\* under: a byte limit and two entry-count limits.
IterFills == {-1, 1, 2}

\* The objects the iterated list is filled with.
IterObjects == {RawObject(<<"a">>), IntObject(7)}

\* The objects inserted through an entry.
InsertObjects == {RawObject(<<"b">>), IntObject(5)}

\* The positions from p on in a direction, in a list of n elements.
TodoFrom(p, direction, n) ==
    IF p < 1 \/ p > n THEN <<>>
    ELSE IF direction = LIST_TAIL THEN [i \in 1..(n - p + 1) |-> p + i - 1]
    ELSE [i \in 1..p |-> p - i + 1]

\* The state after an iterator call whose outcome is r; t is what the
\* observer notes.
IterOutcome(r, op, t) ==
    /\ list' = r.list
    /\ li' = r.li
    /\ entry' = r.entry
    /\ listRet' = r.ret
    /\ listPanic' = r.panic
    /\ listOp' = op
    /\ trav' = t
    /\ UNCHANGED <<list_max_listpack_size, listCb, deque, tryConvs, lastConvLen>>
    /\ UNCHANGED <<si, seen>>
    /\ UNCHANGED strVars
    /\ UNCHANGED setVars
    /\ UNCHANGED dupVars

\* An iterator call can be made: an iterator is open and nothing has failed.
IterOpen == li # NoIterator /\ listPanic = ""

\* The entry is one listTypeNext yielded, of the list as it is encoded now,
\* and nothing has been done with it that invalidates it.
EntryUsable == IterOpen /\ entry.live /\ list.encoding = li.encoding

\* A push command at the tail before the iterator is opened.
IterFill ==
    \E value \in IterObjects :
        LET r == pushGenericCommand(list, <<value>>, LIST_TAIL, list_max_listpack_size)
        IN  /\ li = NoIterator
            /\ listPanic = ""
            /\ listTypeLength(list) < MaxIterLen
            /\ ListOutcome(r, [name |-> "pushGenericCommand"])
            /\ UNCHANGED <<deque, tryConvs, lastConvLen>>

\* listTypeInitIterator(list, index, direction)
IterInit ==
    \E index \in IterIndexes, direction \in ListWheres :
        /\ li = NoIterator
        /\ listPanic = ""
        /\ IterOutcome(IterDone(list, listTypeInitIterator(list, index, direction), NoEntry, <<>>),
                       [name |-> "listTypeInitIterator", index |-> index, direction |-> direction],
                       [NoTraversal EXCEPT
                           !.index = index,
                           !.direction = direction,
                           !.todo = TodoFrom(lpSeek(ListContents(list), index), direction,
                                             listTypeLength(list))])

\* listTypeNext(li, &entry)
IterNext ==
    \E ub \in 0..listTypeLength(list) :
        LET r   == listTypeNext(li, list, ub)
            pos == listTypeEntryPos(r.li, r.entry)
        IN  /\ IterOpen
            /\ li.stale \/ ub = 0
            /\ IterOutcome(r, [name |-> "listTypeNext"],
                           IF r.ret # <<1>> THEN trav
                           ELSE [trav EXCEPT
                                    !.yielded = IF trav.calls = {}
                                                THEN Append(@, listTypeGet(r.li, r.entry, list))
                                                ELSE @,
                                    !.todo = IF @ # <<>> /\ pos = Head(@) THEN Tail(@) ELSE @,
                                    !.inserted = IF pos = @ THEN 0 ELSE @])

\* listTypeSetIteratorDirection(li, &entry, direction)
IterSetDirection ==
    \E direction \in ListWheres :
        LET p == listTypeEntryPos(li, entry)
            n == listTypeLength(list)
        IN  /\ EntryUsable
            /\ "flip" \notin trav.calls
            /\ IterOutcome(IterDone(list, listTypeSetIteratorDirection(li, entry, direction, list),
                                    entry, <<>>),
                           [name |-> "listTypeSetIteratorDirection",
                            same |-> (direction = li.direction)],
                           IF direction = li.direction THEN trav
                           ELSE [trav EXCEPT
                                    !.calls = @ \cup {"flip"},
                                    !.todo = IF direction = LIST_TAIL
                                             THEN TodoFrom(p + 1, direction, n)
                                             ELSE TodoFrom(p - 1, direction, n)])

\* listTypeDelete(li, &entry)
IterDelete ==
    LET p == listTypeEntryPos(li, entry)
        r == listTypeDelete(li, entry, list)
    IN  /\ EntryUsable
        /\ IterOutcome([r EXCEPT !.entry.live = FALSE],
                       [name |-> "listTypeDelete"],
                       [trav EXCEPT
                           !.calls = @ \cup {"delete"},
                           !.todo = [i \in 1..Len(@) |-> IF @[i] > p THEN @[i] - 1 ELSE @[i]],
                           !.inserted = IF @ > p THEN @ - 1 ELSE IF @ = p THEN 0 ELSE @])

\* listTypeInsert(&entry, value, where)
IterInsert ==
    \E value \in InsertObjects, where \in ListWheres :
        LET p == listTypeEntryPos(li, entry)
            k == IF where = LIST_TAIL THEN p + 1 ELSE p
            r == listTypeInsert(li, entry, value, where, list)
        IN  /\ EntryUsable
            /\ "insert" \notin trav.calls
            /\ IterOutcome([r EXCEPT !.entry.live = FALSE],
                           [name |-> "listTypeInsert"],
                           [trav EXCEPT
                               !.calls = @ \cup {"insert"},
                               !.todo = [i \in 1..Len(@) |-> IF @[i] >= k THEN @[i] + 1 ELSE @[i]],
                               !.inserted = k])

\* listTypeTryConversion(list, LIST_CONV_AUTO, NULL, NULL) while the iterator
\* is open, after an element was deleted or inserted through it.
IterConvert ==
    LET r == listTypeTryConversion(list, LIST_CONV_AUTO, list_max_listpack_size)
    IN  /\ IterOpen
        /\ trav.calls \cap {"delete", "insert"} # {}
        /\ IterOutcome(IterDone(r.list, li, IF Converted(list, r) THEN NoEntry ELSE entry, <<>>),
                       [name |-> "listTypeTryConversion", converted |-> Converted(list, r)],
                       IF Converted(list, r) THEN [trav EXCEPT !.calls = @ \cup {"convert"}]
                       ELSE trav)

ListIterNext ==
    \/ IterFill
    \/ IterInit
    \/ IterNext
    \/ IterSetDirection
    \/ IterDelete
    \/ IterInsert
    \/ IterConvert

ListIterInit ==
    /\ ListInit
    /\ list_max_listpack_size \in IterFills

ListIterSpec == ListIterInit /\ [][ListIterNext]_vars

(***************************************************************************)
(* Properties of the Set facade.                                           *)
(***************************************************************************)

\* The place of an encoding in the order intset, listpack, hash table.
EncRank(enc) ==
    IF enc = OBJ_ENCODING_INTSET THEN 1
    ELSE IF enc = OBJ_ENCODING_LISTPACK THEN 2
    ELSE 3

\* C1: after any sequence of Add and Remove calls (and conversions) on a
\* created set, setTypeSize is the number of Add calls that returned 1 minus
\* the number of Remove calls that returned 1, and that is the number of
\* distinct values added and not since removed, in every encoding.
C1_SizeIsAddedMinusRemoved ==
    setPanic = "" =>
        /\ setTypeSize(set) = netAdded
        /\ netAdded = Cardinality(members)

\* C1 witness: a Remove has just deleted a member of a hash table set that
\* still holds three values.
C1_Witness ==
    /\ setPanic = ""
    /\ setOp.name = "setTypeRemove"
    /\ setRet = 1
    /\ set.encoding = OBJ_ENCODING_HT
    /\ setTypeSize(set) = 3

\* C2: Add returns 1 exactly when the value was no member before the call
\* and changes nothing when it returns 0; Remove returns 1 exactly when the
\* value was a member; IsMember returns 1 exactly when the value has been
\* added and not since removed.  A value is its bytes, an integer given as a
\* number being the same member as its canonical decimal text; after Add the
\* store holds the value, after Remove it does not.
C2_ReturnsFollowMembership ==
    [][ setPanic' = "" =>
          /\ setOp'.name = "setTypeAdd" =>
                /\ setRet' = 1 <=> ValueBytes(setOp'.arg) \notin members
                /\ setRet' = 0 => set' = set
                /\ ValueBytes(setOp'.arg) \in SetMembers(set')
          /\ setOp'.name = "setTypeRemove" =>
                /\ setRet' = 1 <=> ValueBytes(setOp'.arg) \in members
                /\ setRet' = 0 => set' = set
                /\ ValueBytes(setOp'.arg) \notin SetMembers(set')
          /\ setOp'.name = "setTypeIsMember" =>
                /\ setRet' = 1 <=> ValueBytes(setOp'.arg) \in members
                /\ set' = set
      ]_vars

\* C2 witness: Add of the integer 1 as a number returned 0 on a listpack set
\* that holds a string, so 1 had been added before.
C2_Witness ==
    /\ setPanic = ""
    /\ setOp.name = "setTypeAdd"
    /\ setOp.arg = LLArg(1)
    /\ setRet = 0
    /\ set.encoding = OBJ_ENCODING_LISTPACK
    /\ <<"a">> \in SetMembers(set)

\* C3: over Add and Remove calls the encoding only moves forward in the
\* order intset, listpack, hash table; Remove never changes the encoding,
\* whether it deleted something or not and also when it empties the set.
C3_EncodingMonotonic ==
    [][ setPanic' = "" =>
          /\ setOp'.name = "setTypeAdd" => EncRank(set'.encoding) >= EncRank(set.encoding)
          /\ setOp'.name = "setTypeRemove" => set'.encoding = set.encoding
      ]_vars

\* C3 witness: a Remove has emptied a hash table set, which stays a hash
\* table.
C3_Witness ==
    /\ setPanic = ""
    /\ setOp.name = "setTypeRemove"
    /\ setRet = 1
    /\ set.encoding = OBJ_ENCODING_HT
    /\ setTypeSize(set) = 0

\* C4: a successful setTypeConvertAndExpand(set, enc, cap, panic) leaves the
\* set with encoding enc, the same members and the same size, for every
\* source encoding and both targets.
C4_ConvertKeepsMembers ==
    [][ (setOp'.name = "setTypeConvertAndExpand" /\ setPanic' = "" /\ setRet' = C_OK) =>
          /\ set'.encoding = setOp'.enc
          /\ set.encoding = setOp'.from
          /\ SetMembers(set') = SetMembers(set)
          /\ setTypeSize(set') = setTypeSize(set)
      ]_vars

\* C4 witness: a hash table of at least three keys has been converted to a
\* listpack that holds both integer and string entries.
C4_Witness ==
    /\ setPanic = ""
    /\ setOp.name = "setTypeConvertAndExpand"
    /\ setOp.from = OBJ_ENCODING_HT
    /\ setRet = C_OK
    /\ set.encoding = OBJ_ENCODING_LISTPACK
    /\ setTypeSize(set) >= 3
    /\ \E e \in Range(set.ptr.entries) : lpIsInt(e)
    /\ \E e \in Range(set.ptr.entries) : ~lpIsInt(e)

-----------------------------------------------------------------------------
\* Properties of the List facade

\* The names of the two conversion checks that can be called on their own.
ConversionChecks == {"listTypeTryConversion", "listTypeTryConversionAppend"}

\* C5: whatever the encoding and whatever conversions happen in between, the
\* list is the abstract double-ended queue of the pushes and pops made on it:
\* same elements in the same order, listTypeLength is its length, a pop returns
\* the element the queue has at that end, and a pop on an empty list returns
\* NULL and leaves the list as it was.
C5_ListIsDeque ==
    /\ [](listPanic = "" =>
            /\ ListContents(list) = deque
            /\ listTypeLength(list) = Len(deque))
    /\ [][ (listOp'.name = "listTypePop" /\ listPanic' = "") =>
             IF Len(deque) = 0
             THEN listRet' = <<>> /\ list' = list
             ELSE /\ listRet' = <<IF listOp'.where = LIST_HEAD
                                  THEN deque[1] ELSE deque[Len(deque)]>>
                  /\ listTypeLength(list') = Len(deque) - 1
         ]_vars

\* C5 witness: a pop at the head of a quicklist of several nodes returned an
\* element that had been pushed as an integer, and elements remain.
C5_Witness ==
    /\ listPanic = ""
    /\ listOp.name = "listTypePop"
    /\ listOp.where = LIST_HEAD
    /\ listRet = << <<"7">> >>
    /\ list.encoding = OBJ_ENCODING_QUICKLIST
    /\ Len(list.ptr.nodes) >= 2
    /\ Len(deque) >= 2

\* C6: a conversion check, converting or not, in either direction, leaves the
\* sequence of elements and listTypeLength as they were; an empty listpack
\* becomes an empty quicklist.
C6_ConversionKeepsElements ==
    [][ (listOp'.name \in ConversionChecks /\ listPanic' = "") =>
          /\ ListContents(list') = ListContents(list)
          /\ listTypeLength(list') = listTypeLength(list)
          /\ (list.encoding = OBJ_ENCODING_LISTPACK /\ listTypeLength(list) = 0
                /\ list'.encoding = OBJ_ENCODING_QUICKLIST)
             => quicklistCount(list'.ptr) = 0 /\ Len(list'.ptr.nodes) = 0
      ]_vars

\* C6 witness: a check has converted a listpack of at least two elements, one
\* of them an integer entry, to a quicklist.
C6_Witness ==
    /\ listPanic = ""
    /\ listOp.name \in ConversionChecks
    /\ listCb # <<>>
    /\ listCb[1].encoding = OBJ_ENCODING_LISTPACK
    /\ list.encoding = OBJ_ENCODING_QUICKLIST
    /\ listTypeLength(list) >= 2
    /\ \E e \in Range(listCb[1].ptr.entries) : lpIsInt(e)

\* The trigger of the conversion check recorded in op.
TriggerOf(op) ==
    IF op.name = "listTypeTryConversion" THEN op.lct ELSE LIST_CONV_GROWING

\* Whether the quicklist ql is one packed node of at most lim.sz bytes and
\* lim.count elements.
OnePackedNodeWithin(ql, lim) ==
    /\ Len(ql.nodes) = 1
    /\ ql.nodes[1].container = QUICKLIST_NODE_CONTAINER_PACKED
    /\ NodeSz(ql.nodes[1]) <= lim.sz
    /\ quicklistCount(ql) <= lim.count

\* Half of the configured bound, rounded down.
HalfBound(fill) ==
    [sz |-> quicklistNodeLimit(fill).sz \div 2,
     count |-> quicklistNodeLimit(fill).count \div 2]

RECURSIVE StringPayload(_)
\* The bytes of the string encoded objects of argv.
StringPayload(argv) ==
    IF Len(argv) = 0 THEN 0
    ELSE (IF Head(argv).encoding = OBJ_ENCODING_RAW THEN Len(Head(argv).sds) ELSE 0)
         + StringPayload(Tail(argv))

RECURSIVE WholePayload(_)
\* The bytes of all the objects of argv, integers as their decimal text.
WholePayload(argv) ==
    IF Len(argv) = 0 THEN 0
    ELSE Len(ObjectBytes(Head(argv))) + WholePayload(Tail(argv))

\* C10 as stated: the growing check converts a listpack exactly when the bound
\* is exceeded by its bytes plus the payload of every element about to be
\* added, or by its count plus their number.
C10_ProjectedWithEveryPayload ==
    [][ (listOp'.name = "listTypeTryConversionAppend" /\ listPanic' = ""
           /\ list.encoding = OBJ_ENCODING_LISTPACK) =>
          (list'.encoding = OBJ_ENCODING_QUICKLIST <=>
             quicklistNodeExceedsLimit(list_max_listpack_size,
                 lpBytes(list.ptr.entries) + WholePayload(listOp'.argv),
                 lpLength(list.ptr.entries) + Len(listOp'.argv)))
      ]_vars

\* C10, amended: the growing check converts a listpack exactly when the bound
\* is exceeded by its bytes plus the lengths of the string encoded elements
\* about to be added (an integer encoded element adds no bytes), or by its
\* count plus the number of all the elements about to be added.
C10_ProjectedWithStringPayload ==
    [][ (listOp'.name = "listTypeTryConversionAppend" /\ listPanic' = ""
           /\ list.encoding = OBJ_ENCODING_LISTPACK) =>
          (list'.encoding = OBJ_ENCODING_QUICKLIST <=>
             quicklistNodeExceedsLimit(list_max_listpack_size,
                 lpBytes(list.ptr.entries) + StringPayload(listOp'.argv),
                 lpLength(list.ptr.entries) + Len(listOp'.argv)))
      ]_vars

\* C10 witness: under a byte bound the growing check has converted a listpack
\* that is within the bound as it stands.
C10_Witness ==
    /\ listPanic = ""
    /\ listOp.name = "listTypeTryConversionAppend"
    /\ list_max_listpack_size < 0
    /\ listCb # <<>>
    /\ list.encoding = OBJ_ENCODING_QUICKLIST
    /\ listTypeLength(list) >= 1
    /\ ~quicklistNodeExceedsLimit(list_max_listpack_size,
            lpBytes(listCb[1].ptr.entries), lpLength(listCb[1].ptr.entries))

\* The count bound of a fill that is not negative.
CountBound(fill) == quicklistNodeLimit(fill).count

\* C9: under a count bound L, with the list changed one element at a time (a
\* growing check before each push, a shrinking check after each pop), a push
\* promotes a listpack exactly when it would take its length over L, a pop
\* demotes a quicklist only to a length of at most L/2 (rounded down), and the
\* lengths at two consecutive conversions differ by at least L minus that half.
C9_Hysteresis ==
    [][ (list_max_listpack_size >= 0 /\ listPanic' = "") =>
          LET L == CountBound(list_max_listpack_size)
          IN  /\ (listOp'.name = "pushGenericCommand" /\ list.encoding = OBJ_ENCODING_LISTPACK)
                   => (list'.encoding = OBJ_ENCODING_QUICKLIST <=> listTypeLength(list) + 1 > L)
              /\ (listOp'.name = "pushGenericCommand" /\ list.encoding = OBJ_ENCODING_QUICKLIST)
                   => list'.encoding = OBJ_ENCODING_QUICKLIST
              /\ (listOp'.name = "popThenShrink" /\ list.encoding = OBJ_ENCODING_LISTPACK)
                   => list'.encoding = OBJ_ENCODING_LISTPACK
              /\ (listOp'.name = "popThenShrink" /\ list.encoding = OBJ_ENCODING_QUICKLIST
                    /\ list'.encoding = OBJ_ENCODING_LISTPACK)
                   => listTypeLength(list') <= L \div 2
              /\ (list'.encoding # list.encoding /\ lastConvLen # -1)
                   => \/ lastConvLen' - lastConvLen >= L - L \div 2
                      \/ lastConvLen - lastConvLen' >= L - L \div 2
      ]_vars

\* C9 witness: under the largest count bound, a list that a push had promoted
\* has been demoted by the shrinking check after a pop, at half the bound.
C9_Witness ==
    /\ listPanic = ""
    /\ list_max_listpack_size = MaxFill
    /\ listOp.name = "popThenShrink"
    /\ listCb # <<>>
    /\ listCb[1].encoding = OBJ_ENCODING_QUICKLIST
    /\ list.encoding = OBJ_ENCODING_LISTPACK
    /\ lastConvLen = MaxFill \div 2
    /\ Len(deque) = MaxFill \div 2

\* C11: a list created empty under a count bound L and filled by push
\* commands of one element each is a listpack for as long as the number of
\* elements pushed is at most L and a quicklist from the first push that takes
\* it over L, the conversion being made by that push; it holds all the pushed
\* elements throughout.
C11_ConvertsAtFirstPushOverBound ==
    /\ []((list_max_listpack_size >= 0 /\ listPanic = "") =>
            /\ list.encoding = OBJ_ENCODING_LISTPACK
                 <=> Len(deque) <= CountBound(list_max_listpack_size)
            /\ ListContents(list) = deque)
    /\ [][ (list_max_listpack_size >= 0 /\ listPanic' = "") =>
             (listCb' # <<>> <=> Len(deque') = CountBound(list_max_listpack_size) + 1)
         ]_vars

\* C11 witness: under the largest count bound the push that took the list to
\* one element more than the bound has just converted it.
C11_Witness ==
    /\ listPanic = ""
    /\ list_max_listpack_size = MaxFill
    /\ listOp.name = "pushGenericCommand"
    /\ listCb # <<>>
    /\ list.encoding = OBJ_ENCODING_QUICKLIST
    /\ Len(deque) = MaxFill + 1

-----------------------------------------------------------------------------
\* Properties of setTypeDup

\* The values of the two objects.
ValueX == Deref(setX, heap)

ValueY == Deref(setY, heap)

\* What setTypeDup guarantees whatever the encoding: the encoding, the members
\* and the size of the original.
DupAlike ==
    /\ setY.encoding = setX.encoding
    /\ ValueY.ptr.kind = ValueX.ptr.kind
    /\ SetMembers(ValueY) = SetMembers(ValueX)
    /\ setTypeSize(ValueY) = setTypeSize(ValueX)

\* C12 as stated: the duplicate has the encoding, the members and the size of
\* the original and yields its members in the same order, in each of the three
\* encodings.
C12_DupSameOrder ==
    (dupOp.name = "setTypeDup" /\ dupPanic = "") => (DupAlike /\ iterY = iterX)

\* C12, amended: the duplicate has the encoding, the members and the size of
\* the original; it yields its members in the same order as the original when
\* the encoding is intset or listpack, and in the order of its own table,
\* which need not be that of the original, when it is a hash table.
C12_DupSameOrderUnlessHashTable ==
    (dupOp.name = "setTypeDup" /\ dupPanic = "") =>
        /\ DupAlike
        /\ setX.encoding # OBJ_ENCODING_HT => iterY = iterX
        /\ Len(iterY) = Len(iterX)
        /\ Range(iterY) = Range(iterX)

\* C12 witness: a listpack holding an integer entry and a string entry has
\* been duplicated.
C12_Witness ==
    /\ dupOp.name = "setTypeDup"
    /\ dupPanic = ""
    /\ setY.encoding = OBJ_ENCODING_LISTPACK
    /\ Len(iterY) >= 2
    /\ \E e \in Range(iterY) : lpIsInt(e)
    /\ \E e \in Range(iterY) : ~lpIsInt(e)

\* C13: once Y = setTypeDup(X) has been made the two objects have different
\* stores, and an Add, a Remove or a conversion of one of them leaves the
\* other's encoding, store, members and size as they were.
C13_DupSharesNothing ==
    /\ []((setY # NoObject /\ dupPanic = "") => setY.addr # setX.addr)
    /\ [][ (setY # NoObject /\ dupPanic' = "" /\ dupOp'.name # "setTypeDup") =>
             /\ dupOp'.target = "Y" =>
                  (setX' = setX /\ Deref(setX', heap') = ValueX)
             /\ dupOp'.target = "X" =>
                  (setY' = setY /\ Deref(setY', heap') = ValueY)
         ]_vars

\* C13 witness: after the duplication the duplicate has been converted and
\* then given a new member, and the original still has the encoding and the
\* members it was duplicated with.
C13_Witness ==
    /\ dupPanic = ""
    /\ dupSteps = 2
    /\ dupOp.name = "setTypeAdd"
    /\ dupOp.target = "Y"
    /\ setY.encoding # setX.encoding
    /\ [i \in 1..Len(iterX) |-> setTypeNextObject(iterX[i])] # <<>>
    /\ SetMembers(ValueX) = {setTypeNextObject(iterX[i]) : i \in 1..Len(iterX)}
    /\ SetMembers(ValueY) # SetMembers(ValueX)

(***************************************************************************)
(* Properties of the list iterator.                                        *)
(***************************************************************************)

Reverse(s) == [i \in 1..Len(s) |-> s[Len(s) - i + 1]]

\* s is what a traversal of t has yielded so far: a prefix of t, and the whole
\* of t once listTypeNext has returned 0.
TraversalOf(s, t) ==
    /\ Len(s) <= Len(t)
    /\ s = SubSeq(t, 1, Len(s))
    /\ (listOp.name = "listTypeNext" /\ listRet = <<0>>) => s = t

\* No call but listTypeNext has been made on the list since the iterator was
\* opened at index in direction.
Untouched(index, direction) ==
    /\ IterOpen
    /\ trav.index = index
    /\ trav.direction = direction
    /\ trav.calls = {}

\* C14: an iterator opened at the first element towards the tail yields the
\* elements e0 .. en-1 in that order, each once, and then reports the end; an
\* iterator opened at the last element towards the head yields the exact
\* reverse, en-1 .. e0; in both encodings of the list.
C14_TraversalInOrder ==
    /\ Untouched(0, LIST_TAIL) => TraversalOf(trav.yielded, ListContents(list))
    /\ Untouched(-1, LIST_HEAD) => TraversalOf(trav.yielded, Reverse(ListContents(list)))

\* A traversal towards the head of a quicklist of several nodes has come to
\* its end.
C14_Witness ==
    /\ Untouched(-1, LIST_HEAD)
    /\ list.encoding = OBJ_ENCODING_QUICKLIST
    /\ Len(list.ptr.nodes) > 1
    /\ Len(trav.yielded) = MaxIterLen
    /\ listOp.name = "listTypeNext"
    /\ listRet = <<0>>

\* The step is a listTypeNext that yields the element the observer has next
\* on its list, or reports the end when that list is empty.
NextYieldsTodo ==
    /\ listPanic' = ""
    /\ listRet' = <<1>> => /\ trav.todo # <<>>
                           /\ listTypeEntryPos(li', entry') = Head(trav.todo)
    /\ listRet' = <<0>> => trav.todo = <<>>

\* C16: listTypeDelete on the entry listTypeNext just yielded removes exactly
\* that element, and the listTypeNext calls that follow yield exactly the
\* elements not yet visited, in the direction of the iteration, then the end:
\* after the last element is deleted towards the tail the next call reports
\* the end, and after the tail element is deleted towards the head the next
\* call yields the new tail element.
C16_DeleteKeepsTraversal ==
    [][/\ listOp'.name = "listTypeDelete" =>
            ListContents(list') = RemoveAt(ListContents(list), listTypeEntryPos(li, entry))
       /\ (listOp'.name = "listTypeNext" /\ trav.calls = {"delete"}) => NextYieldsTodo]_vars

\* Iterating from the tail towards the head, the tail element was deleted and
\* listTypeNext has then yielded the new tail element.
C16_Witness ==
    /\ IterOpen
    /\ trav.calls = {"delete"}
    /\ trav.index = -1
    /\ li.direction = LIST_HEAD
    /\ listOp.name = "listTypeNext"
    /\ listRet = <<1>>
    /\ listTypeLength(list) = MaxIterLen - 1
    /\ listTypeEntryPos(li, entry) = MaxIterLen - 1

\* The step is the listTypeNext that follows a change of direction made on
\* the entry at position i: it yields the neighbour of i in the new direction,
\* or reports the end when i has none.
NextYieldsNeighbour ==
    LET i == listTypeEntryPos(li, entry)
        j == IF li.direction = LIST_TAIL THEN i + 1 ELSE i - 1
    IN  /\ listPanic' = ""
        /\ IF j >= 1 /\ j <= listTypeLength(list)
           THEN listRet' = <<1>> /\ listTypeEntryPos(li', entry') = j
           ELSE listRet' = <<0>>

\* C18: listTypeSetIteratorDirection to the other direction re-anchors the
\* iterator on the element last visited (index i): the next listTypeNext
\* yields the element at i+1 when the new direction is towards the tail and
\* the one at i-1 when it is towards the head, or reports the end if there is
\* none.  Setting the direction the iterator already has changes nothing.
C18_DirectionChangeReanchors ==
    [][/\ (listOp'.name = "listTypeSetIteratorDirection" /\ listOp'.same) =>
            (li' = li /\ entry' = entry /\ list' = list)
       /\ (listOp'.name = "listTypeNext" /\ listOp.name = "listTypeSetIteratorDirection"
             /\ ~listOp.same) => NextYieldsNeighbour]_vars

\* An iterator opened at the first element towards the tail was turned
\* towards the head on the second element, and listTypeNext has then yielded
\* the first element again.
C18_Witness ==
    /\ IterOpen
    /\ trav.calls = {"flip"}
    /\ trav.index = 0
    /\ trav.direction = LIST_TAIL
    /\ li.direction = LIST_HEAD
    /\ Len(trav.yielded) = 2
    /\ listOp.name = "listTypeNext"
    /\ listRet = <<1>>
    /\ listTypeEntryPos(li, entry) = 1

\* The step is a listTypeInsert that puts one element right after or right
\* before the entry's element and leaves the others in their order.
InsertsAtEntry ==
    LET p == listTypeEntryPos(li, entry)
        k == trav'.inserted
    IN  /\ k \in {p, p + 1}
        /\ listTypeLength(list') = listTypeLength(list) + 1
        /\ RemoveAt(ListContents(list'), k) = ListContents(list)

\* The step is a listTypeNext that yields the inserted element or the element
\* the observer has next on its list, or reports the end when that list is
\* empty.
NextYieldsTodoOrInserted ==
    /\ listPanic' = ""
    /\ listRet' = <<1>> =>
          \/ trav.inserted # 0 /\ listTypeEntryPos(li', entry') = trav.inserted
          \/ trav.todo # <<>> /\ listTypeEntryPos(li', entry') = Head(trav.todo)
    /\ listRet' = <<0>> => trav.todo = <<>>

\* C17: listTypeInsert on the entry listTypeNext just yielded places the value
\* right after (LIST_TAIL) or right before (LIST_HEAD) the entry's element,
\* makes the list one longer and keeps the other elements in order, and the
\* iteration continued after it yields each element not yet visited exactly
\* once, in order, never the entry's element again and never through a
\* dangling position.
C17_InsertKeepsTraversal ==
    [][/\ listOp'.name = "listTypeInsert" => InsertsAtEntry
       /\ (listOp'.name = "listTypeNext" /\ trav.calls = {"insert"}) =>
              NextYieldsTodoOrInserted]_vars

(***************************************************************************)
(* Properties of the set iterator.                                         *)
(***************************************************************************)

\* The set has not been touched since the iterator was opened on it.
SetUntouched == si # NoIterator /\ setPanic = "" /\ ~seen.changed

\* No value occurs twice in s.
Distinct(s) == \A i, j \in 1..Len(s) : s[i] = s[j] => i = j

\* What setTypeNext handed back last has the form its encoding allows: the
\* encoding is the set's, an intset hands back an integer (str NULL) and a
\* hash table a string.
YieldWellFormed ==
    seen.out.more =>
        /\ seen.out.encoding = set.encoding
        /\ set.encoding = OBJ_ENCODING_INTSET => seen.out.strNull
        /\ set.encoding = OBJ_ENCODING_HT => ~seen.out.strNull

\* C19: on a set that is not modified, a new iterator yields every member
\* exactly once and then returns -1, and returns -1 again on every further
\* call; each value yielded is either a string (str not NULL) or an integer
\* (str NULL): only integers from an intset, only strings from a hash table,
\* either from a listpack.
C19_IterationYieldsEachOnce ==
    /\ [](SetUntouched =>
            /\ Distinct(seen.yielded)
            /\ Range(seen.yielded) \subseteq SetMembers(set)
            /\ seen.ended => Range(seen.yielded) = SetMembers(set)
            /\ YieldWellFormed)
    /\ [][(setOp'.name = "setTypeNext" /\ SetUntouched /\ seen.ended) => ~seen'.out.more]_vars

\* The iteration of a listpack set of an integer and a string has yielded
\* both and has come to its end.
C19_Witness ==
    /\ SetUntouched
    /\ set.encoding = OBJ_ENCODING_LISTPACK
    /\ seen.ended
    /\ <<"a">> \in Range(seen.yielded)
    /\ <<"1", "3">> \in Range(seen.yielded)

\* C15: an iterator records the encoding of its subject when it is created,
\* and every advance compares the subject's encoding with it: when the
\* encoding was changed while the iterator was open, the next setTypeNext
\* (like the next listTypeNext) is stopped as a fatal invariant violation and
\* does not read the new store with the old cursor.
C15_AdvanceChecksEncoding ==
    [][(setOp'.name = "setTypeNext" /\ si # NoIterator /\ si.encoding # set.encoding) =>
           setPanic' # ""]_vars

(***************************************************************************)
(* Properties of both facades.                                             *)
(***************************************************************************)

\* The store a value of each encoding holds.
StoreOf(enc) ==
    IF enc = OBJ_ENCODING_INTSET THEN "intset"
    ELSE IF enc = OBJ_ENCODING_HT THEN "dict"
    ELSE IF enc = OBJ_ENCODING_QUICKLIST THEN "quicklist"
    ELSE IF enc = OBJ_ENCODING_LISTPACK THEN "listpack"
    ELSE "none"

\* C20: after every facade call on a List or a Set, conversions that
\* converted, declined or failed included, the encoding tag names the store
\* the value holds: a List is a listpack or a quicklist, a Set is an intset,
\* a listpack or a hash table, and the store is of the tag's type.
C20_TagNamesStore ==
    /\ set.encoding \in {OBJ_ENCODING_INTSET, OBJ_ENCODING_LISTPACK, OBJ_ENCODING_HT}
    /\ set.ptr.kind = StoreOf(set.encoding)
    /\ list.encoding \in {OBJ_ENCODING_LISTPACK, OBJ_ENCODING_QUICKLIST}
    /\ list.ptr.kind = StoreOf(list.encoding)

\* A conversion to a hash table has failed (C_ERR) and left a listpack set as
\* it was.
C20_Witness ==
    /\ setOp.name = "setTypeConvertAndExpand"
    /\ setOp.enc = OBJ_ENCODING_HT
    /\ setOp.from = OBJ_ENCODING_LISTPACK
    /\ setRet = C_ERR
    /\ setPanic = ""
    /\ set.encoding = OBJ_ENCODING_LISTPACK
    /\ set.ptr.kind = "listpack"

(***************************************************************************)
(* Properties of set creation, conversion and Add.                         *)
(***************************************************************************)

\* C23: conversion is one way: no setTypeConvert / setTypeConvertAndExpand
\* call takes a set from a hash table back to a listpack or an intset, nor
\* from a listpack back to an intset; a request for an earlier encoding never
\* changes the set to it.
C23_ConversionOneWay ==
    [][setOp'.name = "setTypeConvertAndExpand" =>
           EncRank(set'.encoding) >= EncRank(set.encoding)]_vars

\* The bytes are the decimal text of a 64-bit integer.
IsLongLongText(s) == \E n \in LLONG_MIN..LLONG_MAX : ll2string(n) = s

\* C24: setTypeCreate(value, size_hint) returns an empty set: an intset when
\* value is representable as a 64-bit integer and size_hint is at most
\* set_max_intset_entries, otherwise a listpack when size_hint is at most
\* set_max_listpack_entries, otherwise a hash table presized to size_hint.
\* The value itself is not inserted.
C24_CreateChoosesEncoding ==
    setOp.name = "setTypeCreate" =>
        /\ setTypeSize(set) = 0
        /\ SetMembers(set) = {}
        /\ IF IsLongLongText(setOp.value) /\ setOp.size_hint <= set_max_intset_entries
           THEN set.encoding = OBJ_ENCODING_INTSET
           ELSE IF setOp.size_hint <= set_max_listpack_entries
           THEN set.encoding = OBJ_ENCODING_LISTPACK
           ELSE set.encoding = OBJ_ENCODING_HT /\ set.ptr.cap = setOp.size_hint

\* A set created for an integer value with a size hint over both bounds: an
\* empty hash table with room for the hint.
C24_Witness ==
    /\ setOp.name = "setTypeCreate"
    /\ IsLongLongText(setOp.value)
    /\ setOp.size_hint > set_max_listpack_entries
    /\ setOp.size_hint > set_max_intset_entries
    /\ set.encoding = OBJ_ENCODING_HT
    /\ set.ptr.cap = setOp.size_hint
    /\ set.ptr.keys = {}

\* C21: no sequence of facade calls made with valid values reaches a failed
\* assertion or a serverPanic: on a set created by setTypeCreate, Add, Remove,
\* IsMember, Size, Dup and full iterations never fail the assertions of
\* maybeConvertIntset and setTypeConvertAndExpand nor the dictAdd assertions
\* after a conversion inside Add; on a list, push commands, pushes, pops and
\* conversion checks never fail an encoding assertion nor reach an unknown
\* encoding.
C21_NoFatalFromValidCalls ==
    /\ setPanic = ""
    /\ listPanic = ""
    /\ set.encoding \in {OBJ_ENCODING_INTSET, OBJ_ENCODING_LISTPACK, OBJ_ENCODING_HT}
    /\ list.encoding \in {OBJ_ENCODING_LISTPACK, OBJ_ENCODING_QUICKLIST}
    /\ \A order \in HtOrders(set) : setTypeDupValue(set, order).panic = ""

\* An Add of a value that is no integer has converted an intset to a hash
\* table and inserted the value under the dictAdd assertion.
C21_Witness ==
    /\ setOp.name = "setTypeAdd"
    /\ setOp.from = OBJ_ENCODING_INTSET
    /\ ~ArgIsLL(setOp.arg)
    /\ ~string2ll(setOp.arg.str).ok
    /\ set.encoding = OBJ_ENCODING_HT
    /\ setTypeSize(set) > 1
    /\ setRet = 1
    /\ setPanic = ""

\* C22: setTypeConvertAndExpand called with panic = 0 whose presizing of the
\* new hash table fails returns C_ERR and leaves the set exactly as it was:
\* same encoding, same store, same members; with panic = 1 it never returns
\* C_ERR.
C22_FailedPresizeLeavesSet ==
    [][setOp'.name = "setTypeConvertAndExpand" =>
          /\ (setOp'.enc = OBJ_ENCODING_HT /\ set.encoding # OBJ_ENCODING_HT
                /\ ~setOp'.panic /\ ~setOp'.expandOk) =>
                 (setRet' = C_ERR /\ setPanic' = "" /\ set' = set)
          /\ setRet' = C_ERR =>
                 (~setOp'.panic /\ set' = set /\ SetMembers(set') = members)
          /\ setOp'.panic => setRet' # C_ERR]_vars

\* The conversion of an intset of two members to a hash table has failed and
\* returned C_ERR.
C22_Witness ==
    /\ setOp.name = "setTypeConvertAndExpand"
    /\ setOp.enc = OBJ_ENCODING_HT
    /\ ~setOp.panic
    /\ ~setOp.expandOk
    /\ setRet = C_ERR
    /\ set.encoding = OBJ_ENCODING_INTSET
    /\ setTypeSize(set) = 2

\* The argument of the Add call of this step is an integer: given as a
\* number, or as the decimal text of one.
AddsInteger ==
    /\ setOp'.name = "setTypeAdd"
    /\ ArgIsLL(setOp'.arg) \/ IsLongLongText(setOp'.arg.str)

\* C28: adding a new integer to an intset keeps the intset while the resulting
\* count is at most min(set_max_intset_entries, 2^30); when the resulting
\* count is over that maximum the same Add converts the set directly to a hash
\* table with all elements kept.  Adding an integer that is already a member
\* returns 0 and converts nothing.
C28_IntsetAddInteger ==
    [][(AddsInteger /\ set.encoding = OBJ_ENCODING_INTSET) =>
          LET value   == ValueBytes(setOp'.arg)
              count   == setTypeSize(set) + 1
              maximum == IF set_max_intset_entries < 2^30 THEN set_max_intset_entries
                         ELSE 2^30
          IN  /\ setPanic' = ""
              /\ value \in SetMembers(set) => (setRet' = 0 /\ set' = set)
              /\ value \notin SetMembers(set) =>
                   /\ setRet' = 1
                   /\ SetMembers(set') = SetMembers(set) \cup {value}
                   /\ setTypeSize(set') = count
                   /\ set'.encoding = IF count <= maximum THEN OBJ_ENCODING_INTSET
                                      ELSE OBJ_ENCODING_HT]_vars

\* An Add of a new integer has taken an intset over set_max_intset_entries
\* and the set is a hash table.
C28_Witness ==
    /\ setOp.name = "setTypeAdd"
    /\ setOp.from = OBJ_ENCODING_INTSET
    /\ ArgIsLL(setOp.arg)
    /\ setRet = 1
    /\ setPanic = ""
    /\ set.encoding = OBJ_ENCODING_HT
    /\ setTypeSize(set) = set_max_intset_entries + 1

\* The widest decimal text among the least and the greatest integer of an
\* intset, 0 for an empty one.
WidestText(is) ==
    IF Len(is) = 0 THEN 0 ELSE Max(Len(ll2string(is[1])), Len(ll2string(is[Len(is)])))

\* The bytes of a listpack of as many elements as the intset has, each taken
\* to be as wide as the wider of its least and its greatest; 0 for an empty
\* intset.
PessimisticBytes(is) ==
    IF Len(is) = 0 THEN 0
    ELSE Max(lpEstimateBytesRepeatedInteger(is[1], Len(is)),
             lpEstimateBytesRepeatedInteger(is[Len(is)], Len(is)))

\* C30: adding a value that is no integer to an intset always returns 1 and
\* always changes the encoding: to listpack when the count is below
\* set_max_listpack_entries, the length of the value and the text width of the
\* widest of the least and the greatest member are within the element length
\* bound, and the pessimistic byte estimate passes the size guard; to a hash
\* table otherwise.  The integers and the new value are the members afterwards.
C30_IntsetAddString ==
    [][(setOp'.name = "setTypeAdd" /\ set.encoding = OBJ_ENCODING_INTSET /\ ~AddsInteger) =>
          LET value == setOp'.arg.str
              is    == set.ptr.ints
              fits  == /\ Len(is) < set_max_listpack_entries
                       /\ Len(value) <= set_max_listpack_value
                       /\ WidestText(is) <= set_max_listpack_value
                       /\ lpSafeToAdd(0, PessimisticBytes(is) + Len(value))
          IN  /\ setPanic' = ""
              /\ setRet' = 1
              /\ set'.encoding = IF fits THEN OBJ_ENCODING_LISTPACK ELSE OBJ_ENCODING_HT
              /\ SetMembers(set') = SetMembers(set) \cup {value}
              /\ setTypeSize(set') = setTypeSize(set) + 1]_vars

\* An Add of a string has turned an intset of two integers into a listpack of
\* three elements.
C30_Witness ==
    /\ setOp.name = "setTypeAdd"
    /\ setOp.from = OBJ_ENCODING_INTSET
    /\ ~ArgIsLL(setOp.arg)
    /\ ~IsLongLongText(setOp.arg.str)
    /\ setRet = 1
    /\ set.encoding = OBJ_ENCODING_LISTPACK
    /\ setTypeSize(set) = 3
    /\ setOp.arg.str \in SetMembers(set)

\* The text of the value an Add step was given.
AddedText == IF ArgIsLL(setOp'.arg) THEN ll2string(setOp'.arg.ll) ELSE setOp'.arg.str

\* What an Add step on a listpack set does, given the test its value length
\* has to pass: a present value returns 0 and leaves the set alone; an absent
\* one stays in the listpack exactly when the count is below
\* set_max_listpack_entries, the length passes and the size guard allows the
\* growth, and otherwise goes into a hash table with room for count+1; either
\* way it returns 1 and the size grows by one.
ListpackAdd(LengthPasses(_)) ==
    (setOp'.name = "setTypeAdd" /\ set.encoding = OBJ_ENCODING_LISTPACK) =>
        LET lp    == set.ptr.entries
            gates == /\ lpLength(lp) < set_max_listpack_entries
                     /\ LengthPasses(Len(AddedText))
                     /\ lpSafeToAdd(lpBytes(lp), Len(AddedText))
        IN  /\ setPanic' = ""
            /\ IF AddedText \in SetMembers(set)
               THEN setRet' = 0 /\ set' = set
               ELSE /\ setRet' = 1
                    /\ setTypeSize(set') = setTypeSize(set) + 1
                    /\ SetMembers(set') = SetMembers(set) \cup {AddedText}
                    /\ set'.encoding = IF gates THEN OBJ_ENCODING_LISTPACK ELSE OBJ_ENCODING_HT
                    /\ ~gates => set'.ptr.cap = lpLength(lp) + 1

BelowMaxValue(len) == len < set_max_listpack_value

AtMostMaxValue(len) == len <= set_max_listpack_value

\* C29 as stated: an absent value stays in the listpack only when its byte
\* length is below set_max_listpack_value.
C29_ListpackAddLengthBelow == [][ListpackAdd(BelowMaxValue)]_vars

\* C29: adding an absent value to a listpack set keeps the listpack when the
\* count is below set_max_listpack_entries, the byte length of the value is at
\* most set_max_listpack_value and the size guard allows the growth; otherwise
\* the set becomes a hash table presized for count+1 that holds the value.  The
\* Add returns 1 and the size grows by one in both cases.  Adding a present
\* value returns 0 and leaves the set as it was.
C29_ListpackAddGates == [][ListpackAdd(AtMostMaxValue)]_vars

\* An Add of an absent value has turned a listpack set into a hash table.
C29_Witness ==
    /\ setOp.name = "setTypeAdd"
    /\ setOp.from = OBJ_ENCODING_LISTPACK
    /\ setRet = 1
    /\ set.encoding = OBJ_ENCODING_HT
    /\ ArgStr(setOp.arg) \in SetMembers(set)
    /\ set.ptr.cap = setTypeSize(set)

-----------------------------------------------------------------------------
\* Properties of the list conversion checks, push and pop.

\* C25: a conversion check given a callback invokes it exactly once when it
\* converts, before the store and the tag are swapped, so that the callback
\* sees the list in its old encoding with its old store; a check that does not
\* convert does not invoke it.
C25_CallbackOncePerConversion ==
    [][(listOp'.name \in {"listTypeTryConversion", "listTypeTryConversionAppend"}) =>
          /\ listPanic' = ""
          /\ listCb' = IF list'.encoding # list.encoding THEN <<list>> ELSE <<>>
          /\ list'.encoding = list.encoding => list' = list]_vars

\* A check has turned a quicklist into a listpack and its callback saw the
\* quicklist.
C25_Witness ==
    /\ listOp.name = "listTypeTryConversion"
    /\ list.encoding = OBJ_ENCODING_LISTPACK
    /\ Len(listCb) = 1
    /\ listCb[1].encoding = OBJ_ENCODING_QUICKLIST
    /\ listCb[1].ptr.kind = "quicklist"
    /\ listTypeLength(listCb[1]) > 0

\* C26: listTypePop never changes the encoding of the list, not even the pop
\* that empties a quicklist or brings it under half the bound, and listTypePush
\* never changes it either; neither invokes a conversion callback.
C26_PushPopKeepEncoding ==
    [][(listOp'.name \in {"listTypePop", "listTypePush"}) =>
          /\ listPanic' = ""
          /\ list'.encoding = list.encoding
          /\ list'.ptr.kind = list.ptr.kind
          /\ listCb' = <<>>]_vars

\* A pop has taken the last element of a quicklist, which is still a
\* quicklist.
C26_Witness ==
    /\ listOp.name = "listTypePop"
    /\ listRet # <<>>
    /\ list.encoding = OBJ_ENCODING_QUICKLIST
    /\ listTypeLength(list) = 0

\* The writes of a list: push, insert and replace.
ListWrites == {"listTypePush", "listTypeInsert", "listTypeReplace"}

\* The call made for an integer encoded value hands over its canonical
\* decimal text as bytes.
HandsText == listOp'.call.arg = BytesArg(ll2string(listOp'.value.long))

\* The call made for an integer encoded value hands over the integer.
HandsInteger == listOp'.call.arg = IntegerArg(listOp'.value.long)

\* The list after the write holds what the abstract queue holds, in which
\* the value is its canonical decimal text.
StoresText ==
    /\ listPanic' = ""
    /\ ListContents(list') = deque'
    /\ \E k \in 1..Len(deque') : deque'[k] = ll2string(listOp'.value.long)
    /\ Len(deque') = Len(deque) + (IF listOp'.name = "listTypeReplace" THEN 0 ELSE 1)

\* C27 as stated: every write of an integer encoded value, in either backend,
\* hands the backend its canonical decimal text and never the integer.
C27_IntegerWrittenAsText ==
    [][(listOp'.name \in ListWrites /\ listOp'.value.encoding = OBJ_ENCODING_INT) =>
          HandsText /\ StoresText]_vars

\* C27: a write of an integer encoded value stores an element that reads as
\* its canonical decimal text.  listTypeInsert and listTypeReplace in either
\* backend, and listTypePush into a quicklist, hand the backend that text as
\* bytes; listTypePush into a listpack hands it the integer.
C27_IntegerWrittenAsTextButListpackPush ==
    [][(listOp'.name \in ListWrites /\ listOp'.value.encoding = OBJ_ENCODING_INT) =>
          /\ StoresText
          /\ IF listOp'.name = "listTypePush" /\ list.encoding = OBJ_ENCODING_LISTPACK
             THEN /\ HandsInteger
                  /\ listOp'.call.fn = IF listOp'.where = LIST_HEAD THEN "lpPrependInteger"
                                       ELSE "lpAppendInteger"
             ELSE HandsText]_vars

\* An integer encoded value has replaced an element of a quicklist of two
\* nodes or more, handed over as text.
C27_Witness ==
    /\ listOp.name = "listTypeReplace"
    /\ listOp.value.encoding = OBJ_ENCODING_INT
    /\ listOp.call.fn = "quicklistReplaceEntry"
    /\ listOp.call.arg.form = "bytes"
    /\ list.encoding = OBJ_ENCODING_QUICKLIST
    /\ Len(list.ptr.nodes) >= 2
    /\ \E k \in 1..Len(deque) : deque[k] = ll2string(listOp.value.long)

-----------------------------------------------------------------------------
\* Further properties of sets and of the list conversion checks.

\* C31: after any sequence of setTypeCreate, setTypeAdd, setTypeRemove and
\* setTypeDup, a listpack set holds at most set_max_listpack_entries elements,
\* each with a text of at most set_max_listpack_value bytes, and an intset set
\* holds at most min(set_max_intset_entries, 2^30) elements.
C31_CompactWithinBounds ==
    /\ setPanic = ""
    /\ set.encoding = OBJ_ENCODING_LISTPACK =>
          /\ Len(set.ptr.entries) <= set_max_listpack_entries
          /\ \A k \in 1..Len(set.ptr.entries) :
                Len(lpGet(set.ptr.entries[k])) <= set_max_listpack_value
    /\ set.encoding = OBJ_ENCODING_INTSET =>
          /\ Len(set.ptr.ints) <= set_max_intset_entries
          /\ Len(set.ptr.ints) <= 2^30

\* A listpack set holding set_max_listpack_entries elements has been
\* duplicated.
C31_Witness ==
    /\ setOp.name = "setTypeDup"
    /\ set.encoding = OBJ_ENCODING_LISTPACK
    /\ Len(set.ptr.entries) = set_max_listpack_entries

\* C32: setTypeIsMember leaves the set as it is in every encoding, members,
\* size and encoding included, and on an intset a value that is not the
\* canonical text of an integer is reported absent.
C32_IsMemberReadsOnly ==
    [][(setOp'.name = "setTypeIsMember") =>
          /\ setPanic' = ""
          /\ set' = set
          /\ SetMembers(set') = SetMembers(set)
          /\ setTypeSize(set') = setTypeSize(set)
          /\ set'.encoding = set.encoding
          /\ (/\ set.encoding = OBJ_ENCODING_INTSET
              /\ ~ArgIsLL(setOp'.arg)
              /\ ~IsLongLongText(setOp'.arg.str)) => setRet' = 0]_vars

\* An intset that holds 1 has been probed with the text 01, which was reported
\* absent, and is an intset still.
C32_Witness ==
    /\ setOp.name = "setTypeIsMember"
    /\ setOp.arg = SdsArg(<<"0", "1">>)
    /\ set.encoding = OBJ_ENCODING_INTSET
    /\ intsetFind(set.ptr.ints, 1)
    /\ setRet = 0

\* C33: a check with the growing trigger on a quicklist and a check with the
\* shrinking trigger on a listpack leave the list as it is, whatever its size,
\* and invoke no callback.  The auto trigger promotes a listpack exactly when
\* it exceeds the bound and demotes a quicklist exactly when it is one packed
\* node within the whole bound.
C33_TriggerSelectsCheck ==
    [][(listOp'.name \in ConversionChecks) =>
          LET lct == TriggerOf(listOp')
          IN  /\ listPanic' = ""
              /\ (lct = LIST_CONV_GROWING /\ list.encoding = OBJ_ENCODING_QUICKLIST) =>
                    list' = list /\ listCb' = <<>> /\ ListContents(list') = ListContents(list)
              /\ (lct = LIST_CONV_SHRINKING /\ list.encoding = OBJ_ENCODING_LISTPACK) =>
                    list' = list /\ listCb' = <<>> /\ ListContents(list') = ListContents(list)
              /\ (lct = LIST_CONV_AUTO /\ list.encoding = OBJ_ENCODING_LISTPACK) =>
                    (list'.encoding = OBJ_ENCODING_QUICKLIST <=>
                        quicklistNodeExceedsLimit(list_max_listpack_size,
                            lpBytes(list.ptr.entries), lpLength(list.ptr.entries)))
              /\ (lct = LIST_CONV_AUTO /\ list.encoding = OBJ_ENCODING_QUICKLIST) =>
                    (list'.encoding = OBJ_ENCODING_LISTPACK <=>
                        OnePackedNodeWithin(list.ptr, quicklistNodeLimit(list_max_listpack_size)))
      ]_vars

\* A shrinking check has left alone a listpack that exceeds the bound.
C33_Witness ==
    /\ listOp.name = "listTypeTryConversion"
    /\ listOp.lct = LIST_CONV_SHRINKING
    /\ listPanic = ""
    /\ listCb = <<>>
    /\ list.encoding = OBJ_ENCODING_LISTPACK
    /\ quicklistNodeExceedsLimit(list_max_listpack_size,
           lpBytes(list.ptr.entries), lpLength(list.ptr.entries))

\* The demotion rule of a check on a quicklist: with a trigger other than the
\* growing one, a quicklist of one packed node is turned into a listpack exactly
\* when the bytes of the node and the element count are within the bound, which
\* is the whole configured bound for the auto trigger and half of it for the
\* shrinking trigger.
DemotesWithinTriggerBound ==
    (listOp'.name = "listTypeTryConversion" /\ list.encoding = OBJ_ENCODING_QUICKLIST) =>
        LET lct == listOp'.lct
            lim == IF lct = LIST_CONV_SHRINKING THEN HalfBound(list_max_listpack_size)
                   ELSE quicklistNodeLimit(list_max_listpack_size)
        IN  /\ listPanic' = ""
            /\ list'.encoding = OBJ_ENCODING_LISTPACK <=>
                  (lct # LIST_CONV_GROWING /\ OnePackedNodeWithin(list.ptr, lim))

\* An auto check that follows a growing check which promoted a list that was
\* within the whole bound as it stood.
AutoAfterPromotion ==
    /\ listOp'.name = "listTypeTryConversion"
    /\ listOp'.lct = LIST_CONV_AUTO
    /\ listOp'.promoted
    /\ ~quicklistNodeExceedsLimit(list_max_listpack_size,
            lpBytes(listOp'.before[1].ptr.entries), lpLength(listOp'.before[1].ptr.entries))

\* C34 as stated: the demotion rule, and every list that a growing check has
\* just promoted while it fitted the whole bound is demoted again by an auto
\* check made before any element is written.
C34_AutoDemotesPromoted ==
    [][/\ DemotesWithinTriggerBound
       /\ AutoAfterPromotion => list' = listOp'.before[1]]_vars

\* C34: the demotion rule, and a list that is not empty and that a growing
\* check has just promoted while it fitted the whole bound is demoted again, to
\* the listpack it was, by an auto check made before any element is written;
\* an empty list promoted by a growing check is a quicklist without a node and
\* the auto check leaves it a quicklist.
C34_AutoDemotesPromotedNonEmpty ==
    [][/\ DemotesWithinTriggerBound
       /\ AutoAfterPromotion =>
             IF lpLength(listOp'.before[1].ptr.entries) > 0
             THEN list' = listOp'.before[1]
             ELSE list' = list /\ list.encoding = OBJ_ENCODING_QUICKLIST]_vars

\* An auto check has demoted a list of two elements or more that the growing
\* check before it had promoted.
C34_Witness ==
    /\ listOp.name = "listTypeTryConversion"
    /\ listOp.lct = LIST_CONV_AUTO
    /\ listOp.promoted
    /\ list.encoding = OBJ_ENCODING_LISTPACK
    /\ list = listOp.before[1]
    /\ listTypeLength(list) >= 2
    /\ listCb # <<>>

-----------------------------------------------------------------------------
\* Properties of the SET command.

\* A step in which setGenericCommand has run: the options were accepted.
SetGenericRuns == client'.name = "setCommand" /\ client'.parsed

\* The absolute time in milliseconds an expire argument stands for, in
\* unbounded arithmetic.
ExpireTime(expire, flags, unit, mstime) ==
    (IF unit = UNIT_SECONDS THEN expire.ll * 1000 ELSE expire.ll)
    + (IF "OBJ_EX" \in flags \/ "OBJ_PX" \in flags THEN mstime ELSE 0)

\* An expire argument that is a number above zero, whose seconds can be turned
\* into milliseconds, and whose absolute time is above zero and at most the
\* greatest time.
GoodExpire(expire, flags, unit, mstime) ==
    /\ expire.isll
    /\ expire.ll > 0
    /\ unit = UNIT_SECONDS => expire.ll <= TIME_MAX \div 1000
    /\ ExpireTime(expire, flags, unit, mstime) > 0
    /\ ExpireTime(expire, flags, unit, mstime) <= TIME_MAX

\* The step is made with an expire that is rejected.
BadExpireGiven ==
    /\ client'.expire # NoExpire
    /\ ~GoodExpire(client'.expire, client'.flags, client'.unit, server.mstime)

\* The NX or the XX condition of the step fails on the key as it is.
ConditionFails ==
    \/ "OBJ_SET_NX" \in client'.flags /\ db.type # "none"
    \/ "OBJ_SET_XX" \in client'.flags /\ db.type = "none"

\* C35: every run of setGenericCommand adds exactly one reply: an error when
\* the expire is invalid or the GET variant finds a key of another type; with
\* GET the old value or null, stored or not; without GET the abort reply when
\* the NX or XX condition fails and OK when the value is stored.
C35_ExactlyOneReply ==
    [][SetGenericRuns =>
          LET r   == client'.replies
              get == "OBJ_SET_GET" \in client'.flags
          IN  /\ Len(r) = 1
              /\ IF BadExpireGiven THEN r[1].kind = "error"
                 ELSE IF get /\ db.type \notin {"none", OBJ_STRING} THEN r[1] = WrongTypeError
                 ELSE IF get
                 THEN r[1] = IF db.type = "none" THEN NullReply ELSE Reply("bulk", db.val)
                 ELSE IF ConditionFails THEN r[1] = NullReply
                 ELSE r[1] = OkReply /\ db'.val = client'.val /\ db'.type = OBJ_STRING]_vars

\* A SET with GET and a failing NX has answered the old value and stored
\* nothing.
C35_Witness ==
    /\ client.name = "setCommand"
    /\ client.parsed
    /\ {"OBJ_SET_GET", "OBJ_SET_NX"} \subseteq client.flags
    /\ db.type = OBJ_STRING
    /\ client.replies = <<Reply("bulk", db.val)>>
    /\ client.val # db.val
    /\ client.events = <<>>


\* The options that set or keep the time to live.
ExpireOptions == {"OBJ_EX", "OBJ_PX", "OBJ_EXAT", "OBJ_PXAT", "OBJ_KEEPTTL"}

\* The step stores the value.
Stores == server'.dirty # server.dirty \/ client'.events # <<>>

\* C36: NX stores only when the key does not exist and XX only when it
\* exists; when the condition fails the key, its expire, the dirty counter and
\* the keyspace notifications are left alone; the parser never sets NX and XX
\* together, nor more than one of EX, PX, EXAT, PXAT and KEEPTTL.
C36_ConditionalStore ==
    /\ [](client.name = "setCommand" =>
            /\ ~({"OBJ_SET_NX", "OBJ_SET_XX"} \subseteq client.flags)
            /\ Cardinality(client.flags \cap ExpireOptions) <= 1)
    /\ [][SetGenericRuns =>
            /\ Stores /\ "OBJ_SET_NX" \in client'.flags => db.type = "none"
            /\ Stores /\ "OBJ_SET_XX" \in client'.flags => db.type # "none"
            /\ Stores => /\ db'.type = OBJ_STRING
                         /\ db'.val = client'.val
                         /\ server'.dirty = server.dirty + 1
                         /\ client'.events[1] = "set"
            /\ ConditionFails => /\ db' = db
                                 /\ server' = server
                                 /\ client'.events = <<>>]_vars

\* A SET with NX on a key that holds another value has stored nothing.
C36_Witness ==
    /\ client.name = "setCommand"
    /\ client.parsed
    /\ "OBJ_SET_NX" \in client.flags
    /\ "OBJ_SET_GET" \notin client.flags
    /\ db.type = OBJ_STRING
    /\ db.val # client.val
    /\ server.dirty = 1
    /\ client.replies = <<NullReply>>
    /\ client.events = <<>>

\* C37: getExpireMillisecondsOrReply returns C_OK only with an absolute time
\* in milliseconds above zero; an expire that is zero or negative, a number of
\* seconds above the greatest that can be multiplied by 1000, and a relative
\* expire whose sum with the current time wraps, are rejected with C_ERR and
\* an error reply; a rejected expire leaves the key and its expire unchanged.
C37_ExpireValidated ==
    [][SetGenericRuns /\ client'.expire # NoExpire =>
          LET e == client'.expire
              f == client'.flags
              u == client'.unit
              r == getExpireMillisecondsOrReply(e, f, u, server.mstime)
          IN  /\ r.ret \in {C_OK, C_ERR}
              /\ r.ret = C_OK <=> GoodExpire(e, f, u, server.mstime)
              /\ r.ret = C_OK => /\ r.milliseconds > 0
                                 /\ r.milliseconds = ExpireTime(e, f, u, server.mstime)
                                 /\ r.replies = <<>>
                                 /\ Stores => db'.expire = r.milliseconds
              /\ r.ret = C_ERR => /\ Len(r.replies) = 1
                                  /\ r.replies[1].kind = "error"
                                  /\ client'.replies = r.replies
                                  /\ db' = db
                                  /\ server' = server
                                  /\ client'.events = <<>>
              /\ e.isll /\ ~GoodExpire(e, f, u, server.mstime) => r.replies = <<ExpireTimeError>>]_vars

\* A relative expire in seconds that can be multiplied by 1000, but whose sum
\* with the current time goes over the greatest time, has been rejected.
C37_Witness ==
    /\ client.name = "setCommand"
    /\ client.parsed
    /\ "OBJ_EX" \in client.flags
    /\ client.expire = NumObj(TIME_MAX \div 1000)
    /\ client.expire.ll * 1000 + server.mstime > TIME_MAX
    /\ client.replies = <<ExpireTimeError>>
    /\ client.events = <<>>
    /\ db = NoKey

=============================================================================
